---------------------------- MODULE Spec2Model ----------------------------
(***************************************************************************)
(* A model of the PL/0 bytecode virtual machine of pl0_vm_rs: the file     *)
(* loader (PL0VM::load_from_file), the procedure-table and constant-pool   *)
(* scan (load_data), the disassembler (print_analysis) and the execution   *)
(* engine (execute).  Bytes are numbers 0..255, byte offsets are 0-based   *)
(* as in the source (sequence index = offset + 1), a Data value is the     *)
(* little-endian sequence of its data_size() bytes, and a 64-bit           *)
(* accumulator is a sequence of 8 bytes.                                   *)
(***************************************************************************)
EXTENDS Integers, Sequences, FiniteSets, TLC

(***************************************************************************)
(* Option<T>: None is the empty sequence, Some(x) the one-element one.     *)
(***************************************************************************)
None == << >>
Some(x) == << x >>
IsSome(o) == Len(o) = 1
Unwrap(o) == o[1]

ARG_SIZE == 2

\* a usize too large for any buffer of the model (a negative i64 cast to
\* usize, or link bytes that do not fit the model's integers)
Huge == 2147483647

Max(a, b) == IF a >= b THEN a ELSE b
Min(a, b) == IF a <= b THEN a ELSE b

(***************************************************************************)
(* Little-endian byte sequences.                                           *)
(***************************************************************************)
RECURSIVE to_le_bytes(_, _)
\* the k low bytes of the natural number n, lowest first
to_le_bytes(n, k) ==
    IF k = 0 THEN << >> ELSE << n % 256 >> \o to_le_bytes(n \div 256, k - 1)

\* i16::from_le_bytes
i16_from_le_bytes(lo, hi) ==
    LET u == lo + 256 * hi IN IF u >= 32768 THEN u - 65536 ELSE u

\* i16::to_le_bytes
i16_to_le_bytes(v) == to_le_bytes(IF v < 0 THEN v + 65536 ELSE v, 2)

\* the cast `x as i16` of a small integer
as_i16(x) ==
    LET u == x % 65536 IN IF u >= 32768 THEN u - 65536 ELSE u

\* a cast that drops the sign instead of extending it: a negative
\* procedure id then passes the loader's range test
i16_magnitude(v) == IF v < 0 THEN 0 - v ELSE v

\* the cast `x as usize` of an i16
i16_as_usize(v) == IF v < 0 THEN Huge ELSE v

IsNegative(b) == b[Len(b)] >= 128

\* widening of a Data value to more bytes (sign extension)
SignExtend(b, n) ==
    [i \in 1..n |-> IF i <= Len(b) THEN b[i] ELSE IF IsNegative(b) THEN 255 ELSE 0]

\* narrowing casts `val as i16`, `val as i32`: the low n bytes
Truncate(b, n) == SubSeq(b, 1, n)

\* u64::from_le_bytes(..) as usize, where the model can hold the number
u64_as_usize(b) ==
    IF b[5] = 0 /\ b[6] = 0 /\ b[7] = 0 /\ b[8] = 0 /\ b[4] < 128
    THEN b[1] + 256 * b[2] + 65536 * b[3] + 16777216 * b[4]
    ELSE Huge

\* (n as u64).to_le_bytes() of a usize
usize_to_le_bytes(n) ==
    IF n >= Huge THEN <<255, 255, 255, 255, 255, 255, 255, 127>>
    ELSE to_le_bytes(n, 8)

(***************************************************************************)
(* Two's-complement arithmetic on byte sequences of equal length.          *)
(***************************************************************************)
RECURSIVE AddCarry(_, _, _)
AddCarry(a, b, c) ==
    IF Len(a) = 0 THEN << >>
    ELSE LET s == a[1] + b[1] + c
         IN  << s % 256 >> \o AddCarry(Tail(a), Tail(b), s \div 256)

WrappingAdd(a, b) == AddCarry(a, b, 0)
Complement(a) == [i \in 1..Len(a) |-> 255 - a[i]]
Zeros(n) == [i \in 1..n |-> 0]
WrappingNeg(a) == AddCarry(Complement(a), Zeros(Len(a)), 1)
WrappingSub(a, b) == AddCarry(a, Complement(b), 1)

RECURSIVE ColumnSum(_, _, _, _)
\* sum of a[i] * b[k + 1 - i] for i in 1..m
ColumnSum(a, b, k, m) ==
    IF m = 0 THEN 0 ELSE a[m] * b[k + 1 - m] + ColumnSum(a, b, k, m - 1)

RECURSIVE MulColumns(_, _, _, _)
MulColumns(a, b, k, c) ==
    IF k > Len(a) THEN << >>
    ELSE LET s == ColumnSum(a, b, k, k) + c
         IN  << s % 256 >> \o MulColumns(a, b, k + 1, s \div 256)

\* the low Len(a) bytes of the product
WrappingMul(a, b) == MulColumns(a, b, 1, 0)

AddOverflows(a, b) ==
    IsNegative(a) = IsNegative(b) /\ IsNegative(WrappingAdd(a, b)) # IsNegative(a)
SubOverflows(a, b) ==
    IsNegative(a) # IsNegative(b) /\ IsNegative(WrappingSub(a, b)) # IsNegative(a)
\* the exact product, in twice the bytes, is not the sign extension of its low half
MulOverflows(a, b) ==
    LET n == Len(a)
        full == WrappingMul(SignExtend(a, 2 * n), SignExtend(b, 2 * n))
    IN  full # SignExtend(SubSeq(full, 1, n), 2 * n)
IsMin(a) == a = [i \in 1..Len(a) |-> IF i = Len(a) THEN 128 ELSE 0]
IsZero(a) == a = Zeros(Len(a))

RECURSIVE LessUnsigned(_, _)
\* a < b as unsigned numbers (compared from the highest byte down)
LessUnsigned(a, b) ==
    IF Len(a) = 0 THEN FALSE
    ELSE LET n == Len(a)
         IN  IF a[n] # b[n] THEN a[n] < b[n]
             ELSE LessUnsigned(SubSeq(a, 1, n - 1), SubSeq(b, 1, n - 1))

\* a < b as signed numbers
LessSigned(a, b) ==
    IF IsNegative(a) # IsNegative(b) THEN IsNegative(a) ELSE LessUnsigned(a, b)


RECURSIVE DivBits(_, _, _, _)
\* the quotient bits of n / d, highest first, by shift-and-subtract long
\* division; n is 8 bytes, d and the running remainder r are 9 bytes
DivBits(n, d, i, r) ==
    IF i < 0 THEN << >>
    ELSE LET bit == (n[(i \div 8) + 1] \div (2 ^ (i % 8))) % 2
             r2  == AddCarry(r, r, bit)
             ge  == ~LessUnsigned(r2, d)
             r3  == IF ge THEN WrappingSub(r2, d) ELSE r2
         IN  << IF ge THEN 1 ELSE 0 >> \o DivBits(n, d, i - 1, r3)

\* unsigned 64-bit quotient of two 8-byte magnitudes, d non-zero
DivUnsigned(n, d) ==
    LET bits == DivBits(n, d \o <<0>>, 63, Zeros(9))
        bitAt(p) == bits[64 - p]
    IN  [k \in 1..8 |->
            bitAt(8 * (k - 1)) + 2 * bitAt(8 * (k - 1) + 1)
          + 4 * bitAt(8 * (k - 1) + 2) + 8 * bitAt(8 * (k - 1) + 3)
          + 16 * bitAt(8 * (k - 1) + 4) + 32 * bitAt(8 * (k - 1) + 5)
          + 64 * bitAt(8 * (k - 1) + 6) + 128 * bitAt(8 * (k - 1) + 7)]

Magnitude(a) == IF IsNegative(a) THEN WrappingNeg(a) ELSE a

\* i64 division truncating toward zero, for a non-zero divisor
WrappingDiv(a, b) ==
    LET q == DivUnsigned(Magnitude(a), Magnitude(b))
    IN  IF IsNegative(a) # IsNegative(b) THEN WrappingNeg(q) ELSE q

\* i64::MIN / -1
DivOverflows(a, b) == IsMin(a) /\ b = [i \in 1..Len(b) |-> 255]

\* i64 remainder `a % 2 == 1`: the remainder has the sign of the dividend
RemTwoIsOne(a) == ~IsNegative(a) /\ a[1] % 2 = 1

(***************************************************************************)
(* The opcode table (opcodes.rs).                                          *)
(***************************************************************************)
PushValueLocalVar == 0
PushValueMainVar == 1
PushValueGlobalVar == 2
PushAddressLocalVar == 3
PushAddressMainVar == 4
PushAddressGlobalVar == 5
PushConstant == 6
StoreValue == 7
OutputValue == 8
InputToAddr == 9
Minusify == 10
IsOdd == 11
OpAdd == 12
OpSubtract == 13
OpMultiply == 14
OpDivide == 15
CompareEq == 16
CompareNotEq == 17
CompareLT == 18
CompareGT == 19
CompareLTEq == 20
CompareGTEq == 21
CallProc == 22
ReturnProc == 23
Jump == 24
JumpIfFalse == 25
EntryProc == 26
PutString == 27
Pop == 28
Swap == 29
EndOfCode == 30
Put == 31
Get == 32
OpAddAddr == 33

\* the variants of enum OpCode, in the order of their declaration
OpCodeNames ==
    << "PushValueLocalVar", "PushValueMainVar", "PushValueGlobalVar",
       "PushAddressLocalVar", "PushAddressMainVar", "PushAddressGlobalVar",
       "PushConstant", "StoreValue", "OutputValue", "InputToAddr", "Minusify",
       "IsOdd", "OpAdd", "OpSubtract", "OpMultiply", "OpDivide", "CompareEq",
       "CompareNotEq", "CompareLT", "CompareGT", "CompareLTEq", "CompareGTEq",
       "CallProc", "ReturnProc", "Jump", "JumpIfFalse", "EntryProc",
       "PutString", "Pop", "Swap", "EndOfCode", "Put", "Get", "OpAddAddr" >>

\* <OpCode as Into<u8>>::into(op): the discriminant of the variant
OpCode_into(op) ==
    CASE op = "PushValueLocalVar" -> PushValueLocalVar
      [] op = "PushValueMainVar" -> PushValueMainVar
      [] op = "PushValueGlobalVar" -> PushValueGlobalVar
      [] op = "PushAddressLocalVar" -> PushAddressLocalVar
      [] op = "PushAddressMainVar" -> PushAddressMainVar
      [] op = "PushAddressGlobalVar" -> PushAddressGlobalVar
      [] op = "PushConstant" -> PushConstant
      [] op = "StoreValue" -> StoreValue
      [] op = "OutputValue" -> OutputValue
      [] op = "InputToAddr" -> InputToAddr
      [] op = "Minusify" -> Minusify
      [] op = "IsOdd" -> IsOdd
      [] op = "OpAdd" -> OpAdd
      [] op = "OpSubtract" -> OpSubtract
      [] op = "OpMultiply" -> OpMultiply
      [] op = "OpDivide" -> OpDivide
      [] op = "CompareEq" -> CompareEq
      [] op = "CompareNotEq" -> CompareNotEq
      [] op = "CompareLT" -> CompareLT
      [] op = "CompareGT" -> CompareGT
      [] op = "CompareLTEq" -> CompareLTEq
      [] op = "CompareGTEq" -> CompareGTEq
      [] op = "CallProc" -> CallProc
      [] op = "ReturnProc" -> ReturnProc
      [] op = "Jump" -> Jump
      [] op = "JumpIfFalse" -> JumpIfFalse
      [] op = "EntryProc" -> EntryProc
      [] op = "PutString" -> PutString
      [] op = "Pop" -> Pop
      [] op = "Swap" -> Swap
      [] op = "EndOfCode" -> EndOfCode
      [] op = "Put" -> Put
      [] op = "Get" -> Get
      [] op = "OpAddAddr" -> OpAddAddr

\* a conversion that rejects nothing: the byte is taken modulo the number
\* of variants
OpCode_from_any(byte) == Some(OpCodeNames[(byte % Len(OpCodeNames)) + 1])

\* OpCode::try_from(byte): Ok(variant) for the byte that is the discriminant
\* of a variant, Err for the rest
OpCode_try_from(byte) ==
    LET found == { i \in 1..Len(OpCodeNames) : OpCode_into(OpCodeNames[i]) = byte }
    IN  IF found = {} THEN None
        ELSE Some(OpCodeNames[CHOOSE i \in found : TRUE])

\* whether OpCode::try_from(byte) is Ok
OpCodeKnown(byte) == IsSome(OpCode_try_from(byte))

(***************************************************************************)
(* The state.                                                              *)
(***************************************************************************)
VARIABLES
    file,             \* what std::fs::read(filename) returns: [ok, bytes]
    program,          \* PL0VM.program
    bits,             \* PL0VM.bits, as its data size in bytes (B16 = 2, ...)
    debug,            \* PL0VM.debug
    analyze_first,    \* whether print_analysis is called before execute
    overflow_checks,  \* whether the build checks integer overflow (debug profile)
    load_result,      \* what load_from_file returned: "none", "Ok(true)", "Ok(false)", "Err"
    task,             \* where control is: "new", "loaded", "analysis", "preload",
                      \* "run", "input", "returned", "failed"
    a_pc,             \* print_analysis: pc
    a_rem_bytes,      \* print_analysis: rem_bytes
    a_procedure_count,\* print_analysis: procedure_count
    a_end,            \* how print_analysis ended: "", "done", "error", "panic", "spin"
    l_pc,             \* load_data: pc
    l_rem_bytes,      \* load_data: rem_bytes
    l_procedure_count,\* load_data: procedure_count
    l_procedures,     \* load_data: procedures, a sequence of Option<start_pos>
    procedures,       \* execute: procedures, a sequence of [start_pos, frame_ptr]
    constants,        \* execute: constants, a sequence of Data
    pc,               \* execute: pc
    stack,            \* execute: stack
    fp,               \* execute: fp
    cur_proc_i,       \* execute: cur_proc_i
    in_addr,          \* execute: addr of the InputToAddr whose input loop is running
    x_end,            \* how execute ended: "", "exit", "end_of_code", "break", "error", "panic"
    stdin,            \* the input lines not yet read
    stdout,           \* what was printed: analysis lines and program output
    stderr,           \* the diagnostics written by error(), and panic messages
    read_hi,          \* highest program offset print_analysis or execute has read, -1 if none
    steps,            \* number of instructions execute has dispatched
    last,             \* the last dispatched instruction and the state it started from
    calls             \* the CallProc dispatches not yet returned from, innermost last

vars == << file, program, bits, debug, analyze_first, overflow_checks, load_result, task,
           a_pc, a_rem_bytes, a_procedure_count, a_end,
           l_pc, l_rem_bytes, l_procedure_count, l_procedures,
           procedures, constants, pc, stack, fp, cur_proc_i, in_addr, x_end,
           stdin, stdout, stderr, read_hi, steps, last, calls >>

vmVars == << program, bits, load_result >>
analysisVars == << a_pc, a_rem_bytes, a_procedure_count, a_end >>
loaderVars == << l_pc, l_rem_bytes, l_procedure_count, l_procedures >>
engineVars == << procedures, constants, pc, stack, fp, cur_proc_i, in_addr, x_end,
                 steps, last, calls >>
buildVars == << file, debug, analyze_first, overflow_checks >>

(***************************************************************************)
(* PL0VM's helpers.                                                        *)
(***************************************************************************)
\* self.program.get(offset..(offset + ARG_SIZE)) as an i16
read_arg(offset) ==
    IF offset + ARG_SIZE <= Len(program)
    THEN Some(i16_from_le_bytes(program[offset + 1], program[offset + 2]))
    ELSE None

data_size == bits

\* Vec::get(offset..): the rest of the buffer, None if offset is beyond its end
get_from(buf, offset) ==
    IF offset <= Len(buf) THEN Some(SubSeq(buf, offset + 1, Len(buf))) ELSE None

\* bytes_to_data: None for None, the first data_size() bytes for Some; the
\* slice bytes[0..n] panics when fewer than n bytes are there
bytes_to_data(bytes) ==
    IF ~IsSome(bytes) THEN [k |-> "none", v |-> << >>]
    ELSE IF Len(Unwrap(bytes)) < data_size THEN [k |-> "panic", v |-> << >>]
    ELSE [k |-> "some", v |-> SubSeq(Unwrap(bytes), 1, data_size)]

read_data(offset) == bytes_to_data(get_from(program, offset))

\* Data::i64
i64(data) == SignExtend(data, 8)

data_true == to_le_bytes(1, data_size)
data_false == to_le_bytes(0, data_size)
data_bool(val) == IF val THEN data_true ELSE data_false

\* the narrowing `match self.bits { B16(_) => B16(val as i16), ... }`
narrow(val) == Truncate(val, data_size)

(***************************************************************************)
(* Output.  A printed line is a record [k, at, args]: the header line of   *)
(* the analysis, one line per analysed instruction (args = the opcode      *)
(* byte, then the decoded operands, then for a jump the resolved target),  *)
(* one line per constant, and the program's own output.  The wording of    *)
(* the debug trace is not modelled: a traced instruction is one "trace"    *)
(* line.  A diagnostic is the key of its message.                          *)
(***************************************************************************)
Line(k, at, args) == [k |-> k, at |-> at, args |-> args]

RECURSIVE RemTen(_, _)
\* the remainder by ten of the bytes i..Len(m) of m, taken as a number
RemTen(m, i) ==
    IF i > Len(m) THEN 0 ELSE (RemTen(m, i + 1) * 256 + m[i]) % 10

\* the quotient by ten of an unsigned magnitude, by long division from the
\* highest byte down
DivTen(m) == [i \in 1..Len(m) |-> (RemTen(m, i + 1) * 256 + m[i]) \div 10]

RECURSIVE DecimalDigits(_)
\* the decimal digits (as character codes) of an 8-byte magnitude
DecimalDigits(m) ==
    LET q == DivTen(m)
    IN  (IF IsZero(q) THEN << >> ELSE DecimalDigits(q)) \o << 48 + RemTen(m, 1) >>

\* format!("{}", c) of an i64: the characters printed
to_decimal(v) ==
    (IF IsNegative(v) THEN << 45 >> ELSE << >>) \o DecimalDigits(Magnitude(v))

(***************************************************************************)
(* Program files: an assembler for the byte format the scans decode.       *)
(***************************************************************************)
Header(count, width) == i16_to_le_bytes(count) \o i16_to_le_bytes(width)
Ins0(op) == << op >>
Ins1(op, a) == << op >> \o i16_to_le_bytes(a)
Ins2(op, a, b) == << op >> \o i16_to_le_bytes(a) \o i16_to_le_bytes(b)
Entry(len, id, reserved) ==
    << EntryProc >> \o i16_to_le_bytes(len) \o i16_to_le_bytes(id)
                    \o i16_to_le_bytes(reserved)
\* a procedure whose declared length is that of its bytes, EntryProc included
Proc(id, reserved, body) == Entry(1 + 3 * ARG_SIZE + Len(body), id, reserved) \o body
ReadableFile(bytes) == [ok |-> TRUE, bytes |-> bytes]
UnreadableFile == [ok |-> FALSE, bytes |-> << >>]

\* the w-byte Data value of a small integer
Value(n, w) ==
    IF n >= 0 THEN to_le_bytes(n, w) ELSE WrappingNeg(to_le_bytes(-n, w))
MaxValue(w) == [i \in 1..w |-> IF i = w THEN 127 ELSE 255]
MinValue(w) == [i \in 1..w |-> IF i = w THEN 128 ELSE 0]

Widths == {2, 4, 8}

\* Scenario A of the specification, with the declared body length len
ScenarioA(len) ==
    Header(1, 4) \o Entry(len, 0, 0) \o Ins1(PushConstant, 0) \o Ins0(OutputValue)
                 \o Ins0(ReturnProc) \o Value(42, 4)

(***************************************************************************)
(* The runs checked: a program file, the debug flag, the build, the input. *)
(***************************************************************************)
Run(bytes, d, o, input) ==
    [file |-> ReadableFile(bytes), debug |-> d, overflow_checks |-> o, stdin |-> input,
     analyze_first |-> FALSE]
\* the same run with print_analysis called first
Analysed(run) == [run EXCEPT !.analyze_first = TRUE]

RECURSIVE Concat(_)
\* the concatenation of a sequence of byte sequences
Concat(parts) == IF Len(parts) = 0 THEN << >> ELSE Head(parts) \o Concat(Tail(parts))

Values(w) == { Value(0, w), Value(1, w), Value(-1, w), Value(3, w),
               MaxValue(w), MinValue(w) }
FewValues(w) == { Value(0, w), Value(1, w), Value(-1, w), MinValue(w) }

\* main pushes constants 0 and 1, applies op and prints the result
BinaryProgram(op, w, a, b) ==
    Header(1, w)
    \o Proc(0, 0, Concat(<< Ins1(PushConstant, 0), Ins1(PushConstant, 1), Ins0(op),
                            Ins0(OutputValue), Ins0(ReturnProc) >>))
    \o a \o b

\* main pushes constant 0, applies op and prints the result
UnaryProgram(op, w, a) ==
    Header(1, w)
    \o Proc(0, 0, Concat(<< Ins1(PushConstant, 0), Ins0(op), Ins0(OutputValue),
                            Ins0(ReturnProc) >>))
    \o a

ArithmeticRuns ==
    UNION { { Run(BinaryProgram(op, w, a, b), FALSE, o, << >>) :
                op \in {OpAdd, OpSubtract, OpMultiply, OpDivide},
                a \in Values(w), b \in FewValues(w) \cup {Value(3, w)},
                o \in BOOLEAN } : w \in Widths }

CompareRuns ==
    UNION { { Run(BinaryProgram(op, w, a, b), FALSE, FALSE, << >>) :
                op \in {CompareEq, CompareNotEq, CompareLT, CompareGT, CompareLTEq,
                        CompareGTEq},
                a \in FewValues(w), b \in FewValues(w) } : w \in Widths }

UnaryRuns ==
    UNION { { Run(UnaryProgram(op, w, a), FALSE, o, << >>) :
                op \in {Minusify, IsOdd}, a \in Values(w) \cup {Value(-3, w)},
                o \in BOOLEAN } : w \in Widths }

\* Scenario C: main calls A, A calls B; each holds a temporary across its
\* call and reserves its own number of bytes
NestProgram(w, rM, rA, rB) ==
    Header(3, w)
    \o Proc(0, rM, Concat(<< Ins1(PushConstant, 0), Ins1(CallProc, 1),
                             Ins0(OutputValue), Ins0(ReturnProc) >>))
    \o Proc(1, rA, Concat(<< Ins1(PushConstant, 1), Ins1(CallProc, 2),
                             Ins0(OutputValue), Ins0(ReturnProc) >>))
    \o Proc(2, rB, Concat(<< Ins1(PushConstant, 0), Ins1(PushConstant, 1),
                             Ins0(ReturnProc) >>))
    \o Value(7, w) \o Value(9, w)

\* main (one variable, initially 0) calls P; P calls itself once, after
\* setting main's variable, and reserves r bytes
RecursiveProgram(w, r) ==
    Header(2, w)
    \o Proc(0, w, Concat(<< Ins1(CallProc, 1), Ins0(ReturnProc) >>))
    \o Proc(1, r, Concat(<< Ins1(PushValueMainVar, 0), Ins1(JumpIfFalse, 1),
                            Ins0(ReturnProc),
                            Ins1(PushAddressMainVar, 0), Ins1(PushConstant, 0),
                            Ins0(StoreValue), Ins1(CallProc, 1), Ins0(ReturnProc) >>))
    \o Value(1, w)

\* main calls P, which pops a value off the link record and returns
ShortStackProgram(w) ==
    Header(2, w)
    \o Proc(0, 0, Concat(<< Ins1(CallProc, 1), Ins0(ReturnProc) >>))
    \o Proc(1, 0, Concat(<< Ins0(Pop), Ins0(ReturnProc) >>))

\* main has no instruction of its own: the engine runs from main's
\* EntryProc into the EntryProc of P, which prints a constant and returns
FallThroughProgram(w) ==
    Header(2, w)
    \o Proc(0, 0, << >>)
    \o Proc(1, w, Concat(<< Ins1(PushConstant, 0), Ins0(OutputValue),
                            Ins0(ReturnProc) >>))
    \o Value(3, w)

\* main calls P, whose body runs into the EntryProc of Q
FallThroughCallProgram(w, r) ==
    Header(3, w)
    \o Proc(0, 0, Concat(<< Ins1(CallProc, 1), Ins0(ReturnProc) >>))
    \o Proc(1, 0, << >>)
    \o Proc(2, r, Ins0(ReturnProc))

\* the procedures stand in the file in the order Q, P, main; main calls P,
\* which calls Q
ReorderedProgram(w) ==
    Header(3, w)
    \o Proc(2, w, Ins0(ReturnProc))
    \o Proc(1, 0, Concat(<< Ins1(CallProc, 2), Ins0(ReturnProc) >>))
    \o Proc(0, w, Concat(<< Ins1(CallProc, 1), Ins0(ReturnProc) >>))

CallRuns ==
    { Run(ShortStackProgram(w), FALSE, o, << >>) : w \in Widths, o \in BOOLEAN }
    \cup { Run(ReorderedProgram(w), FALSE, FALSE, << >>) : w \in Widths }
    \cup { Run(FallThroughProgram(w), FALSE, FALSE, << >>) : w \in Widths }
    \cup { Run(FallThroughCallProgram(w, r), FALSE, o, << >>) :
              w \in Widths, r \in {0, 32}, o \in BOOLEAN }
    \cup
    { Run(NestProgram(w, rM, rA, rB), d, FALSE, << >>) :
        w \in Widths, rM \in {0, 4}, rA \in {0, 8}, rB \in {0, 2}, d \in BOOLEAN }
    \cup { Run(RecursiveProgram(w, r), FALSE, FALSE, << >>) :
        w \in Widths, r \in {0, 2, 8} }

\* variables of main and of a procedure, read and written in every
\* addressing mode
VariableProgram(w, a, b) ==
    Header(2, w)
    \o Proc(0, 2 * w, Concat(<<
          Ins1(PushAddressLocalVar, w), Ins1(PushConstant, 0), Ins0(StoreValue),
          Ins1(PushValueLocalVar, w), Ins0(OutputValue),
          Ins1(PushAddressMainVar, 0), Ins0(Swap), Ins0(OutputValue),
          Ins1(CallProc, 1), Ins0(ReturnProc) >>))
    \o Proc(1, w, Concat(<<
          Ins1(PushAddressLocalVar, 0), Ins1(PushConstant, 1), Ins0(StoreValue),
          Ins1(PushAddressLocalVar, 0), Ins0(Swap), Ins1(PushValueLocalVar, 0),
          Ins0(CompareEq), Ins0(OutputValue),
          Ins2(PushValueGlobalVar, 0, 1), Ins1(PushValueMainVar, w),
          Ins2(PushAddressGlobalVar, 0, 0), Ins0(Pop), Ins0(Pop), Ins0(Pop),
          Ins0(ReturnProc) >>))
    \o a \o b

\* main reserves 32767 bytes, so the frame of P lies above address 32767
HighFrameProgram(w) ==
    Header(2, w)
    \o Proc(0, 32767, Concat(<< Ins1(CallProc, 1), Ins0(ReturnProc) >>))
    \o Proc(1, w, Concat(<< Ins1(PushValueLocalVar, 0), Ins0(Pop),
                            Ins1(PushAddressLocalVar, 0), Ins0(Swap),
                            Ins0(ReturnProc) >>))

\* one instruction `ins` and then a return, on a stack of r zero bytes
ProbeProgram(w, r, ins) ==
    Header(1, w) \o Proc(0, r, ins \o Ins0(ReturnProc)) \o Value(5, w) \o Value(-2, w)

VariableRuns ==
    UNION { { Run(VariableProgram(w, a, b), FALSE, FALSE, << >>) :
                a \in FewValues(w), b \in FewValues(w) } : w \in Widths }
    \cup { Run(HighFrameProgram(2), FALSE, FALSE, << >>) }
    \cup { Run(ProbeProgram(w, r, ins), FALSE, FALSE, << >>) :
             w \in Widths, r \in {0, 3, 8},
             ins \in { Ins1(PushValueLocalVar, 0), Ins1(PushValueLocalVar, 2),
                       Ins1(PushValueLocalVar, -1), Ins1(PushValueMainVar, 1),
                       Ins1(PushValueMainVar, -1),
                       Ins2(PushValueGlobalVar, 0, 0), Ins2(PushValueGlobalVar, 0, 1),
                       Ins2(PushValueGlobalVar, 0, -1), Ins2(PushValueGlobalVar, -1, 0),
                       Ins1(PushAddressLocalVar, 3), Ins1(PushAddressLocalVar, -1),
                       Ins1(PushAddressMainVar, -1),
                       Ins2(PushAddressGlobalVar, 0, 1), Ins2(PushAddressGlobalVar, -1, 0),
                       Ins1(PushConstant, 1), Ins1(PushConstant, 2),
                       Ins1(PushConstant, -1),
                       Ins1(CallProc, 1), Ins1(CallProc, -1), Ins1(CallProc, 0),
                       Ins0(StoreValue), Ins0(OutputValue), Ins0(InputToAddr),
                       Ins0(Minusify), Ins0(IsOdd), Ins0(OpAdd), Ins0(CompareLT),
                       Ins0(JumpIfFalse), Ins0(Swap),
                       Ins1(PushConstant, 0) \o Ins0(Swap),
                       Ins1(PushConstant, 1) \o Ins0(Swap),
                       Ins1(PushConstant, 0) \o Ins1(PushConstant, 0) \o Ins0(StoreValue),
                       Ins1(PushConstant, 0) \o Ins1(PushConstant, 1) \o Ins0(StoreValue),
                       Ins1(PushConstant, 1) \o Ins1(PushConstant, 0) \o Ins0(StoreValue)
                     } }

\* a jump over the first of two output blocks
JumpProgram(w, offset) ==
    Header(1, w)
    \o Proc(0, 0, Concat(<< Ins1(Jump, offset),
                            Ins1(PushConstant, 0), Ins0(OutputValue), Ins0(ReturnProc),
                            Ins1(PushConstant, 1), Ins0(OutputValue), Ins0(ReturnProc) >>))
    \o Value(1, w) \o Value(2, w)

\* a conditional jump on the value v over the first of two output blocks
JumpIfFalseProgram(w, v, offset) ==
    Header(1, w)
    \o Proc(0, 0, Concat(<< Ins1(PushConstant, 0), Ins1(JumpIfFalse, offset),
                            Ins1(PushConstant, 1), Ins0(OutputValue), Ins0(ReturnProc),
                            Ins1(PushConstant, 0), Ins0(OutputValue), Ins0(ReturnProc) >>))
    \o v \o Value(2, w)

JumpOffsets == {0, 5, -3, 4, 200, -1000, 32767}

JumpRuns ==
    { Run(JumpProgram(w, off), FALSE, FALSE, << >>) : w \in Widths, off \in JumpOffsets }
    \cup UNION { { Run(JumpIfFalseProgram(w, v, off), FALSE, FALSE, << >>) :
                     v \in FewValues(w), off \in JumpOffsets } : w \in Widths }

\* main is the bytes `body` as they are
RawProgram(w, body) == Header(1, w) \o Proc(0, 0, body) \o Value(3, w)

MiscBodies ==
    { << PutString, 72, 105, 0 >> \o Ins0(ReturnProc),
      << PutString, 195, 164, 0 >> \o Ins0(ReturnProc),
      << PutString, 0 >> \o Ins0(ReturnProc),
      << PutString, 255, 0 >> \o Ins0(ReturnProc),
      << PutString, 195, 0 >> \o Ins0(ReturnProc),
      << PutString, 72, 105 >>,
      Ins0(Pop) \o Ins0(ReturnProc),
      Ins1(PushConstant, 0) \o Ins0(Pop) \o Ins0(ReturnProc),
      Ins0(EndOfCode),
      Ins1(PushConstant, 0) \o Ins0(EndOfCode) \o Ins0(ReturnProc),
      Ins0(Put), Ins0(Get), Ins0(OpAddAddr),
      Ins1(PushConstant, 0) \o Ins0(Put),
      << 34 >>, << 255 >>, << 128 >> \o Ins0(ReturnProc),
      Ins1(PushConstant, 0) \o Ins0(OutputValue),
      << PushConstant >>, << PushConstant, 0 >>, << CallProc, 0 >>, << Jump >>,
      << Jump, 1 >>, << JumpIfFalse, 0 >>, << PushValueGlobalVar, 0, 0, 0 >>,
      << PushAddressGlobalVar, 0 >>, << PushValueLocalVar >>,
      Ins1(PushConstant, 0) \o << JumpIfFalse, 0 >>,
      Ins2(EntryProc, 0, 0), Ins1(EntryProc, 0), Entry(0, 0, 4) \o Ins0(ReturnProc),
      Entry(0, -1, 0) \o Ins0(ReturnProc), Entry(0, 1, 0) \o Ins0(ReturnProc),
      Entry(0, 0, -1) \o Ins0(ReturnProc)
    }

MiscRuns ==
    { Run(RawProgram(w, body), d, FALSE, << >>) :
        w \in Widths, body \in MiscBodies, d \in BOOLEAN }
    \cup { Run(RawProgram(w, Entry(0, 0, -1) \o Ins0(ReturnProc)), FALSE, TRUE, << >>) :
        w \in Widths }
    \cup { Analysed(Run(RawProgram(w, Ins1(Jump, 3) \o Ins1(PushAddressLocalVar, -1)
                                       \o << OpAddAddr + 1 >>),
                         FALSE, FALSE, << >>)) : w \in Widths }

\* P reads a number into its variable at addr and prints the variable
InputProgram(w, r, addr) ==
    Header(2, w)
    \o Proc(0, r, Concat(<< Ins1(PushAddressLocalVar, addr), Ins0(InputToAddr),
                            Ins1(PushValueLocalVar, addr), Ins0(OutputValue),
                            Ins1(CallProc, 1), Ins0(ReturnProc) >>))
    \o Proc(1, r, Concat(<< Ins1(PushAddressLocalVar, addr), Ins0(InputToAddr),
                            Ins1(PushValueLocalVar, addr), Ins0(OutputValue),
                            Ins0(ReturnProc) >>))

\* main reads a number to the address given by constant 0
InputAtProgram(w, a) ==
    Header(1, w)
    \o Proc(0, w, Concat(<< Ins1(PushConstant, 0), Ins0(InputToAddr),
                            Ins1(PushValueLocalVar, 0), Ins0(OutputValue),
                            Ins0(ReturnProc) >>))
    \o a

InputLines ==
    { << 52, 50, 10 >>, << 45, 55, 10 >>, << 32, 43, 49, 50, 32, 13, 10 >>,
      << 120, 10 >>, << 10 >>, << 45, 10 >>, << 49, 32, 50, 10 >>,
      << 54, 53, 53, 51, 53, 10 >>,
      << 57, 50, 50, 51, 51, 55, 50, 48, 51, 54, 56, 53, 52, 55, 55, 53, 56, 48, 55, 10 >>,
      << 57, 50, 50, 51, 51, 55, 50, 48, 51, 54, 56, 53, 52, 55, 55, 53, 56, 48, 56, 10 >>,
      << 45, 57, 50, 50, 51, 51, 55, 50, 48, 51, 54, 56, 53, 52, 55, 55, 53, 56, 48, 56, 10 >> }

Inputs ==
    { << >> } \cup { << a >> : a \in InputLines }
    \cup { << a, b >> : a \in { << 120, 10 >>, << 10 >>, << 52, 50, 10 >> },
                        b \in { << 45, 55, 10 >>, << 120, 10 >> } }
    \cup { << << 52, 50, 10 >>, << 120, 10 >>, << 45, 55, 10 >> >> }

InputRuns ==
    { Run(InputProgram(w, r, addr), FALSE, FALSE, input) :
        w \in Widths, r \in {8, 16}, addr \in {0, 8}, input \in Inputs }
    \cup UNION { { Run(InputAtProgram(w, a), FALSE, FALSE, input) :
                     a \in FewValues(w), input \in { << >>, << << 52, 50, 10 >> >> } }
                 : w \in Widths }

\* files the loader or the header checks reject, or scan in an unusual way
MalformedFiles ==
    { << >>, << 1 >>, << 1, 0, 2 >>, Header(1, 2), Header(1, 4), Header(1, 3),
      Header(1, 2) \o << 0 >>,
      Header(1, 3) \o Proc(0, 0, Ins0(ReturnProc)),
      Header(1, 0) \o Proc(0, 0, Ins0(ReturnProc)),
      Header(1, 16) \o Proc(0, 0, Ins0(ReturnProc)),
      Header(1, 258) \o Proc(0, 0, Ins0(ReturnProc)),
      Header(1, 1026) \o Proc(0, 0, Ins0(ReturnProc)),
      Header(1, -1) \o Proc(0, 0, Ins0(ReturnProc)),
      Header(0, 2) \o Proc(0, 0, Ins0(ReturnProc)),
      Header(0, 2) \o Ins0(ReturnProc),
      Header(-1, 2) \o Proc(0, 0, Ins0(ReturnProc)),
      Header(2, 2) \o Proc(0, 0, Ins0(ReturnProc)),
      Header(2, 2) \o Proc(0, 0, Ins0(ReturnProc)) \o Proc(0, 0, Ins0(ReturnProc)),
      Header(2, 2) \o Proc(1, 0, Ins0(ReturnProc)) \o Proc(1, 0, Ins0(ReturnProc)),
      Header(2, 2) \o Proc(0, 0, Ins0(ReturnProc)) \o Proc(2, 0, Ins0(ReturnProc)),
      Header(2, 2) \o Proc(0, 0, Ins0(ReturnProc)) \o Proc(-1, 0, Ins0(ReturnProc)),
      Header(2, 2) \o Proc(1, 0, Ins0(ReturnProc)) \o Proc(0, 0, Ins0(ReturnProc)),
      Header(1, 2) \o << EntryProc >>,
      Header(1, 2) \o << EntryProc, 8, 0 >>,
      Header(1, 2) \o << EntryProc, 8, 0, 0 >>,
      Header(1, 2) \o << EntryProc, 8, 0, 0, 0 >>,
      Header(1, 2) \o << EntryProc, 8, 0, 0, 0, 0 >>,
      Header(1, 2) \o << EntryProc, 7, 0, 0, 0, 0 >>,
      Header(1, 2) \o << EntryProc, 0, 0, 0, 0 >>,
      Header(2, 2) \o Proc(1, 0, Ins0(ReturnProc)) \o << EntryProc, 7, 0, 0, 0 >>,
      Header(1, 2) \o Entry(9, 0, 0) \o Ins0(ReturnProc),
      Header(1, 2) \o Entry(3, 0, 0) \o Ins0(ReturnProc) \o Value(7, 2),
      Header(1, 2) \o Entry(9, 0, 0) \o Ins1(PushConstant, 0) \o Ins0(ReturnProc),
      Header(1, 2) \o Entry(-32768, 0, 0) \o Ins0(ReturnProc),
      Header(1, 2) \o Entry(-32765, 0, 0) \o Ins0(ReturnProc),
      Header(1, 4) \o Proc(0, 0, Ins0(ReturnProc)) \o << 1, 2, 3, 4, 5, 6 >>,
      Header(1, 2) \o Ins0(ReturnProc) \o Proc(0, 0, Ins0(ReturnProc)),
      Header(1, 2) \o Proc(0, 0, << PutString, 72 >>),
      Header(2, 2) \o Proc(0, 0, << Jump, 0, 128 >> \o Ins0(ReturnProc))
    }

MalformedRuns ==
    { Run(bytes, FALSE, o, << >>) : bytes \in MalformedFiles, o \in BOOLEAN }
    \cup { [file |-> UnreadableFile, debug |-> FALSE, overflow_checks |-> FALSE,
            stdin |-> << >>, analyze_first |-> FALSE] }

ScenarioRuns ==
    { Run(ScenarioA(len), d, FALSE, << >>) : len \in {0, 12}, d \in BOOLEAN }

ExecutedRuns ==
    ScenarioRuns \cup ArithmeticRuns \cup CompareRuns \cup UnaryRuns \cup CallRuns
    \cup VariableRuns \cup JumpRuns \cup MiscRuns \cup InputRuns \cup MalformedRuns

\* main runs print_analysis or execute; the runs that call print_analysis
\* and then execute show both on one program
Runs ==
    ExecutedRuns
    \cup { Analysed(r) : r \in ScenarioRuns \cup CallRuns \cup JumpRuns \cup MiscRuns
                                \cup MalformedRuns }


(***************************************************************************)
(* PL0VM::new, then main's PL0VM::from_file.                               *)
(***************************************************************************)
\* no CallProc dispatch, and no dispatched instruction
NoCall == [at |-> -1, ret |-> 0, len |-> 0, fp |-> 0, cur |-> 0, frame_ptr |-> 0]
NoInstruction ==
    [op |-> -1, at |-> 0, stack |-> << >>, fp |-> 0, cur |-> 0,
     procedures |-> << >>, call |-> NoCall]

Init ==
    /\ \E r \in Runs :
          /\ file = r.file
          /\ debug = r.debug
          /\ analyze_first = r.analyze_first
          /\ overflow_checks = r.overflow_checks
          /\ stdin = r.stdin
    /\ program = << >>
    /\ bits = 2
    /\ load_result = "none"
    /\ task = "new"
    /\ a_pc = 0 /\ a_rem_bytes = 0 /\ a_procedure_count = 0 /\ a_end = ""
    /\ l_pc = 0 /\ l_rem_bytes = 0 /\ l_procedure_count = 0 /\ l_procedures = << >>
    /\ procedures = << >> /\ constants = << >>
    /\ pc = 0 /\ stack = << >> /\ fp = 0 /\ cur_proc_i = 0 /\ in_addr = << >>
    /\ x_end = ""
    /\ stdout = << >> /\ stderr = << >>
    /\ read_hi = -1 /\ steps = 0 /\ last = NoInstruction /\ calls = << >>

\* the match on read_arg(ARG_SIZE) in load_from_file, on the bytes just stored
load_bits(bytes) ==
    LET val == IF ARG_SIZE + ARG_SIZE <= Len(bytes)
               THEN Some(i16_from_le_bytes(bytes[ARG_SIZE + 1], bytes[ARG_SIZE + 2]))
               ELSE None
    IN  IF IsSome(val) /\ Unwrap(val) \in {2, 4, 8} THEN Some(Unwrap(val)) ELSE None

\* load_from_file's result
load_from_file_result(f) ==
    IF ~f.ok THEN "Err"
    ELSE IF IsSome(load_bits(f.bytes)) THEN "Ok(true)" ELSE "Ok(false)"

\* from_file: Ok(pl0vm) whenever load_from_file returned Ok(_), Err otherwise
from_file_result(f) ==
    IF load_from_file_result(f) = "Err" THEN "Err" ELSE "Ok"

\* from_file: the file is read, stored, and the width field selects bits
FromFile ==
    /\ task = "new"
    /\ load_result' = load_from_file_result(file)
    /\ program' = IF file.ok THEN file.bytes ELSE program
    /\ bits' = IF file.ok /\ IsSome(load_bits(file.bytes))
               THEN Unwrap(load_bits(file.bytes)) ELSE bits
    /\ task' = IF from_file_result(file) = "Ok" THEN "loaded" ELSE "failed"
    /\ stdout' = IF from_file_result(file) = "Ok" THEN stdout
                 ELSE Append(stdout, Line("file_error", 0, << >>))
    /\ UNCHANGED << buildVars, analysisVars, loaderVars, engineVars, stdin, stderr,
                    read_hi >>

\* a width check that lets every width pass: Scenario B does not stop in it
arch_any(arch) == arch = arch

\* the check both print_analysis and execute start with
invalid_file == Len(program) <= 4 \/ program[4] > 0
arch_valid(arch) == arch = 2 \/ arch = 4 \/ arch = 8

\* print_analysis up to its loop: the header checks and the header line
PrintAnalysisHeader ==
    /\ task = "loaded" /\ analyze_first /\ a_end = ""
    /\ IF invalid_file
       THEN /\ stderr' = Append(stderr, "pl0.invalid_file")
            /\ a_end' = "error"
            /\ task' = "loaded"
            /\ read_hi' = IF Len(program) > 4 THEN Max(read_hi, 3) ELSE read_hi
            /\ UNCHANGED << stdout, a_pc, a_rem_bytes, a_procedure_count >>
       ELSE LET count == Unwrap(read_arg(0))
                arch  == Unwrap(read_arg(ARG_SIZE))
            IN  /\ stdout' = Append(stdout, Line("header", 0, << count, arch >>))
                /\ read_hi' = Max(read_hi, 3)
                /\ a_procedure_count' = count
                /\ a_pc' = 4
                /\ a_rem_bytes' = 0
                /\ IF arch_valid(arch)
                   THEN /\ task' = "analysis"
                        /\ UNCHANGED << stderr, a_end >>
                   ELSE /\ stderr' = Append(stderr, "pl0.arch_invalid")
                        /\ a_end' = "error"
                        /\ task' = "loaded"
    /\ UNCHANGED << buildVars, vmVars, loaderVars, engineVars, stdin >>

\* execute up to the call of load_data: the header checks
ExecuteHeader ==
    /\ task = "loaded" /\ (analyze_first => a_end # "")
    /\ IF invalid_file
       THEN /\ stderr' = Append(stderr, "pl0.invalid_file")
            /\ x_end' = "error"
            /\ task' = "returned"
            /\ read_hi' = IF Len(program) > 4 THEN Max(read_hi, 3) ELSE read_hi
            /\ UNCHANGED << stdout, loaderVars >>
       ELSE LET arch_bytes == Unwrap(read_arg(ARG_SIZE))
            IN  /\ read_hi' = Max(read_hi, 3)
                /\ stdout' = IF debug
                             THEN Append(stdout, Line("trace", 0, << arch_bytes >>))
                             ELSE stdout
                /\ IF arch_valid(arch_bytes)
                   THEN \* load_data begins: Vec::with_capacity(procedure_count
                        \* as usize) panics for a negative count
                        IF Unwrap(read_arg(0)) < 0
                        THEN /\ stderr' = Append(stderr, "panic: capacity overflow")
                             /\ x_end' = "panic"
                             /\ task' = "returned"
                             /\ UNCHANGED loaderVars
                        ELSE /\ task' = "preload"
                             /\ l_procedure_count' = Unwrap(read_arg(0))
                             /\ l_procedures' = [i \in 1..Unwrap(read_arg(0)) |-> None]
                             /\ l_pc' = 4
                             /\ l_rem_bytes' = 0
                             /\ UNCHANGED << stderr, x_end >>
                   ELSE /\ stderr' = Append(stderr, "pl0.arch_invalid")
                        /\ x_end' = "error"
                        /\ task' = "returned"
                        /\ UNCHANGED loaderVars
    /\ UNCHANGED << buildVars, vmVars, analysisVars, procedures, constants, pc, stack,
                    fp, cur_proc_i, in_addr, steps, last, calls, stdin >>

(***************************************************************************)
(* load_data: one iteration of its loop per step; the iteration that       *)
(* leaves the loop also builds the result and execute's initial state.     *)
(***************************************************************************)
\* an i16 `a - b` on the build: wrapped, or a panic when overflow is checked
i16_fits(x) == -32768 <= x /\ x <= 32767

\* a start_pos that is the position after the operands, not that of the
\* opcode byte
entry_end_pos(at) == at

\* the start_pos recorded for an EntryProc whose operands end at pc
entry_start_pos(at) == at - 1 - ARG_SIZE * 3

\* one pass through the loop body from `at`: what it decodes, up to the
\* subtraction from rem_bytes
load_data_iteration(at, rem, count, procs) ==
    IF at >= Len(program)
    THEN [k |-> "error", msg |-> "pl0.error.preload_error", pc |-> at,
          rem |-> rem, count |-> count, procs |-> procs, hi |-> -1]
    ELSE IF rem = 0 /\ program[at + 1] = EntryProc
    THEN LET len == read_arg(at + 1)
             id  == read_arg(at + 1 + ARG_SIZE)
             after == at + 1 + ARG_SIZE + ARG_SIZE * 2
         IN  IF ~IsSome(len)
             THEN [k |-> "error", msg |-> "pl0.error.preload_error", pc |-> at + 1,
                   rem |-> rem, count |-> count, procs |-> procs, hi |-> at]
             ELSE IF ~IsSome(id)
             THEN [k |-> "error", msg |-> "pl0.error.preload_error",
                   pc |-> at + 1 + ARG_SIZE, rem |-> Unwrap(len), count |-> count,
                   procs |-> procs, hi |-> at + ARG_SIZE]
             ELSE IF i16_as_usize(Unwrap(id)) >= Len(procs)
             THEN [k |-> "error", msg |-> "pl0.error.invalid_preload_procedure",
                   pc |-> after, rem |-> Unwrap(len), count |-> count,
                   procs |-> procs, hi |-> at + 2 * ARG_SIZE]
             ELSE [k |-> "ok", msg |-> "", pc |-> after, rem |-> Unwrap(len),
                   count |-> count - 1,
                   procs |-> [procs EXCEPT ![Unwrap(id) + 1] =
                                 Some(entry_start_pos(after))],
                   hi |-> at + 2 * ARG_SIZE]
    ELSE [k |-> "ok", msg |-> "", pc |-> at + 1, rem |-> rem, count |-> count,
          procs |-> procs, hi |-> at]

\* the loop's exit test
scan_ends(rem, count) == rem <= 0 /\ count = 0

\* the number of constants read from position at
constant_count(at) == (Len(program) - at) \div data_size

\* a pool read one byte early: Scenario A's constant is not 42 in it
read_constants_early(at) ==
    [i \in 1..constant_count(at) |-> read_data(at - 1 + data_size * (i - 1)).v]

\* the constants of the pool starting at position at
read_constants(at) ==
    [i \in 1..constant_count(at) |-> read_data(at + data_size * (i - 1)).v]

\* procedures.into_iter().map(|procedure| procedure.unwrap())
unwrap_procedures(procs) ==
    [i \in 1..Len(procs) |-> [start_pos |-> Unwrap(procs[i]), frame_ptr |-> 0]]

LoadFail(kind, msg) ==
    /\ x_end' = kind
    /\ stderr' = Append(stderr, msg)
    /\ task' = "returned"
    /\ UNCHANGED << procedures, constants, pc, stack, fp, cur_proc_i >>

LoadData ==
    /\ task = "preload"
    /\ LET it  == load_data_iteration(l_pc, l_rem_bytes, l_procedure_count,
                                      l_procedures)
           sub == it.rem - (it.pc - l_pc)
           rem == as_i16(sub)
       IN  /\ l_pc' = it.pc
           /\ l_procedure_count' = it.count
           /\ l_procedures' = it.procs
           /\ read_hi' = Max(read_hi, it.hi)
           /\ IF it.k = "error"
              THEN /\ l_rem_bytes' = it.rem
                   /\ LoadFail("error", it.msg)
              ELSE IF ~i16_fits(sub) /\ overflow_checks
              THEN /\ l_rem_bytes' = it.rem
                   /\ LoadFail("panic", "panic: attempt to subtract with overflow")
              ELSE /\ l_rem_bytes' = rem
                   /\ IF ~scan_ends(rem, it.count)
                      THEN UNCHANGED << task, x_end, stderr, procedures, constants,
                                        pc, stack, fp, cur_proc_i >>
                      ELSE IF \E i \in 1..Len(it.procs) : ~IsSome(it.procs[i])
                      THEN LoadFail("panic", "panic: called Option::unwrap() on a None value")
                      ELSE IF it.pc > Len(program)
                      THEN LoadFail("panic", IF overflow_checks
                                        THEN "panic: attempt to subtract with overflow"
                                        ELSE "panic: pl0.error.invalid_constant_read")
                      ELSE IF Len(it.procs) = 0
                      THEN LoadFail("panic", "panic: index out of bounds")
                      ELSE \* execute's initial state, lines 324-330
                           /\ procedures' = unwrap_procedures(it.procs)
                           /\ constants' = read_constants(it.pc)
                           /\ pc' = Unwrap(it.procs[1])
                           /\ stack' = << >>
                           /\ fp' = 0
                           /\ cur_proc_i' = 0
                           /\ task' = "run"
                           /\ UNCHANGED << x_end, stderr >>
    /\ UNCHANGED << buildVars, vmVars, analysisVars, in_addr, steps, last, calls,
                    stdin, stdout >>

(***************************************************************************)
(* execute: the closures of its "collection of functions".                 *)
(***************************************************************************)
\* pop_data: the top data_size() bytes, None when the stack is shorter
pop_data(stk) ==
    IF Len(stk) < data_size
    THEN [k |-> "none", v |-> << >>, stack |-> stk]
    ELSE [k |-> "some", v |-> SubSeq(stk, Len(stk) - data_size + 1, Len(stk)),
          stack |-> SubSeq(stk, 1, Len(stk) - data_size)]

\* push_data
push_data(stk, data) == stk \o data

\* pop_argument: the operand at `at` (the caller's pc advances by ARG_SIZE)
pop_argument(at) == read_arg(at)

\* a resize that only ever grows the buffer: the stack an EntryProc leaves
\* can then be longer than fp + reserved
resize_grow_only(stk, n) ==
    [i \in 1..Max(n, Len(stk)) |-> IF i <= Len(stk) THEN stk[i] ELSE 0]

\* Vec::resize(n, 0)
resize(stk, n) == [i \in 1..n |-> IF i <= Len(stk) THEN stk[i] ELSE 0]

\* a set_addr that writes without growing the buffer first: the bytes that
\* fall beyond the end are lost
set_addr_in_place(stk, addr, data) ==
    [i \in 1..Len(stk) |->
        IF addr < i /\ i <= addr + data_size THEN data[i - addr] ELSE stk[i]]

\* set_addr, for an address the model can hold
set_addr(stk, addr, data) ==
    LET grown == IF Len(stk) < addr + data_size THEN resize(stk, addr + data_size)
                 ELSE stk
    IN  [i \in 1..Len(grown) |->
            IF addr < i /\ i <= addr + data_size THEN data[i - addr] ELSE grown[i]]

\* usize::checked_add_signed
checked_add_signed(start, offset) ==
    IF start >= Huge THEN Some(Huge)
    ELSE IF start + offset < 0 THEN None
    ELSE Some(start + offset)

\* offsetted: checked_add_signed(..).expect("invalid variable offset")
offsetted(start, offset) == checked_add_signed(start, offset)

\* the cast `x as usize` of an i64
i64_as_usize(v) == IF IsNegative(v) THEN Huge ELSE u64_as_usize(v)

\* the cast `x as isize` of an i64 that is a small number either way
i64_as_isize(v) ==
    IF IsNegative(v) THEN 0 - u64_as_usize(WrappingNeg(v)) ELSE u64_as_usize(v)

\* String::from_utf8 accepts the bytes
RECURSIVE valid_utf8(_)
valid_utf8(b) ==
    LET cont(i) == i <= Len(b) /\ 128 <= b[i] /\ b[i] <= 191
        rest(n) == valid_utf8(SubSeq(b, n + 1, Len(b)))
    IN  IF Len(b) = 0 THEN TRUE
        ELSE IF b[1] < 128 THEN rest(1)
        ELSE IF 194 <= b[1] /\ b[1] <= 223 THEN cont(2) /\ rest(2)
        ELSE IF b[1] = 224 THEN cont(2) /\ b[2] >= 160 /\ cont(3) /\ rest(3)
        ELSE IF b[1] = 237 THEN cont(2) /\ b[2] <= 159 /\ cont(3) /\ rest(3)
        ELSE IF 225 <= b[1] /\ b[1] <= 239 THEN cont(2) /\ cont(3) /\ rest(3)
        ELSE IF b[1] = 240 THEN cont(2) /\ b[2] >= 144 /\ cont(3) /\ cont(4) /\ rest(4)
        ELSE IF b[1] = 244 THEN cont(2) /\ b[2] <= 143 /\ cont(3) /\ cont(4) /\ rest(4)
        ELSE IF 241 <= b[1] /\ b[1] <= 243 THEN cont(2) /\ cont(3) /\ cont(4) /\ rest(4)
        ELSE FALSE

RECURSIVE take_while_not_nul(_, _)
\* program.iter().skip(at).take_while(|b| b != 0)
take_while_not_nul(buf, at) ==
    IF at >= Len(buf) \/ buf[at + 1] = 0 THEN << >>
    ELSE << buf[at + 1] >> \o take_while_not_nul(buf, at + 1)

(***************************************************************************)
(* execute: what one pass through the main loop does, per opcode.  The     *)
(* result names how the pass ends (k: "run" goes on to the next fetch,     *)
(* "input" enters the input loop, "exit", "end_of_code" and "break" leave  *)
(* the loop, "error" is a return after error(msg), "panic" is a panic)     *)
(* and the values of execute's variables at that point.                    *)
(***************************************************************************)
Continue(npc) ==
    [k |-> "run", msg |-> "", pc |-> npc, stack |-> stack, fp |-> fp,
     cur |-> cur_proc_i, procedures |-> procedures, out |-> << >>,
     in_addr |-> in_addr]
Ends(kind, msg, npc) == [Continue(npc) EXCEPT !.k = kind, !.msg = msg]
ArgError(npc) == Ends("error", "pl0.error.invalid_arg_read", npc)
StackError(npc, stk) ==
    [Ends("error", "pl0.error.invalid_stack_read", npc) EXCEPT !.stack = stk]
Panic(msg, npc) == Ends("panic", msg, npc)
Pushed(npc, stk, data) == [Continue(npc) EXCEPT !.stack = push_data(stk, data)]

\* EntryProc, lines 387-404
ExecEntryProc ==
    LET p      == pc + 1 + ARG_SIZE
        proc_i == pop_argument(p)
        varlen == pop_argument(p + ARG_SIZE)
        npc    == p + 2 * ARG_SIZE
    IN  IF ~IsSome(proc_i) THEN ArgError(p + ARG_SIZE)
        ELSE IF Unwrap(proc_i) < 0
        THEN Ends("error", "pl0.enter_invalid_proc", p + ARG_SIZE)
        ELSE IF ~IsSome(varlen) THEN ArgError(npc)
        ELSE IF Unwrap(proc_i) >= Len(procedures)
        THEN Panic("panic: index out of bounds", npc)
        ELSE LET nfp == procedures[Unwrap(proc_i) + 1].frame_ptr
                 len == nfp + Unwrap(varlen)
             IN  \* a negative varlen is a huge usize: fp + varlen wraps, or
                 \* panics where overflow is checked, or is too much to allocate
                 IF nfp >= Huge
                 THEN [Panic("panic: capacity overflow", npc) EXCEPT !.fp = nfp]
                 ELSE IF Unwrap(varlen) < 0 /\ (len < 0 \/ overflow_checks)
                 THEN [Panic(IF len < 0 THEN "panic: capacity overflow"
                             ELSE "panic: attempt to add with overflow", npc)
                         EXCEPT !.fp = nfp]
                 ELSE [Continue(npc) EXCEPT !.fp = nfp, !.stack = resize(stack, len)]

\* a ReturnProc that takes the saved pc and the saved fp in the other order:
\* the restoration property C2 does not hold of it
link_fields_exchanged(stk) ==
    LET n == Len(stk)
    IN  [proc_i |-> u64_as_usize(SubSeq(stk, n - 7, n)),
         fp     |-> u64_as_usize(SubSeq(stk, n - 23, n - 16)),
         pc     |-> u64_as_usize(SubSeq(stk, n - 15, n - 8)),
         stack  |-> SubSeq(stk, 1, n - 24)]

\* the three linkage fields ReturnProc drains from a stack of at least 24 bytes
link_fields(stk) ==
    LET n == Len(stk)
    IN  [proc_i |-> u64_as_usize(SubSeq(stk, n - 7, n)),
         fp     |-> u64_as_usize(SubSeq(stk, n - 15, n - 8)),
         pc     |-> u64_as_usize(SubSeq(stk, n - 23, n - 16)),
         stack  |-> SubSeq(stk, 1, n - 24)]

\* Vec::truncate
truncate(stk, n) == IF n < Len(stk) THEN SubSeq(stk, 1, n) ELSE stk

\* a ReturnProc that ends the run in whatever procedure it is dispatched:
\* C13 does not hold of it
ExecReturnProcAnywhere == Ends("exit", "", pc + 1)

\* ReturnProc, lines 405-419
ExecReturnProc ==
    IF cur_proc_i = 0 THEN Ends("exit", "", pc + 1)
    ELSE IF cur_proc_i >= Len(procedures)
    THEN Panic("panic: index out of bounds", pc + 1)
    ELSE LET cut == truncate(stack, procedures[cur_proc_i + 1].frame_ptr)
         IN  IF Len(cut) < 24
             THEN \* `stack.len() - 8` on fewer than 8 bytes: the subtraction
                  \* panics where overflow is checked, the drain where it wraps
                  [Panic(IF overflow_checks
                         THEN "panic: attempt to subtract with overflow"
                         ELSE "panic: range start index out of range for slice",
                         pc + 1) EXCEPT
                     !.stack = SubSeq(cut, 1, Len(cut) - 8 * (Len(cut) \div 8))]
             ELSE LET link == link_fields(cut)
                  IN  [Continue(link.pc) EXCEPT !.stack = link.stack,
                                                !.fp = link.fp,
                                                !.cur = link.proc_i]

\* a link record whose fields are as wide as the data of the file: at
\* widths 2 and 4 it is not the 24 bytes C19 is about
link_record_of_data_width(ret_pc, old_fp, old_proc) ==
    to_le_bytes(ret_pc, data_size) \o to_le_bytes(old_fp, data_size)
                                   \o to_le_bytes(old_proc, data_size)

\* the link record CallProc pushes
link_record(ret_pc, old_fp, old_proc) ==
    usize_to_le_bytes(ret_pc) \o usize_to_le_bytes(old_fp)
                              \o usize_to_le_bytes(old_proc)

\* CallProc, lines 420-437
ExecCallProc ==
    LET proc_id == pop_argument(pc + 1)
        npc     == pc + 1 + ARG_SIZE
    IN  IF ~IsSome(proc_id) THEN ArgError(npc)
        ELSE IF Unwrap(proc_id) < 0
        THEN Ends("error", "pl0.call_invalid_proc", npc)
        ELSE LET linked == stack \o link_record(npc, fp, cur_proc_i)
             IN  IF Unwrap(proc_id) >= Len(procedures)
                 THEN [Panic("panic: index out of bounds", npc) EXCEPT !.stack = linked]
                 ELSE [Continue(procedures[Unwrap(proc_id) + 1].start_pos) EXCEPT
                         !.stack = linked,
                         !.cur = Unwrap(proc_id),
                         !.procedures = [procedures EXCEPT
                             ![Unwrap(proc_id) + 1].frame_ptr = Len(linked)]]

\* the read `bytes_to_data(&stack.get(address..))` and push of the PushValue opcodes
push_value_at(npc, address) ==
    LET data == bytes_to_data(get_from(stack, address))
    IN  IF data.k = "none" THEN StackError(npc, stack)
        ELSE IF data.k = "panic"
        THEN Panic("panic: range end index out of range for slice", npc)
        ELSE Pushed(npc, stack, data.v)

\* the conversion and push of the PushAddress opcodes: the first data_size()
\* bytes of the address
push_address(npc, address) ==
    Pushed(npc, stack, bytes_to_data(Some(usize_to_le_bytes(address))).v)

\* PushValueLocalVar, lines 439-454
ExecPushValueLocalVar ==
    LET addr == pop_argument(pc + 1)
        npc  == pc + 1 + ARG_SIZE
    IN  IF ~IsSome(addr) THEN ArgError(npc)
        ELSE IF Unwrap(addr) < 0 THEN Ends("error", "pl0.invalid_local_var_val", npc)
        ELSE push_value_at(npc, Unwrap(offsetted(fp, Unwrap(addr))))

\* PushValueMainVar, lines 455-470
ExecPushValueMainVar ==
    LET addr == pop_argument(pc + 1)
        npc  == pc + 1 + ARG_SIZE
    IN  IF ~IsSome(addr) THEN ArgError(npc)
        ELSE IF Unwrap(addr) < 0 THEN Ends("error", "pl0.invalid_main_var_val", npc)
        ELSE push_value_at(npc, Unwrap(offsetted(procedures[1].frame_ptr, Unwrap(addr))))

\* PushValueGlobalVar, lines 471-490
ExecPushValueGlobalVar ==
    LET addr       == pop_argument(pc + 1)
        proc_index == pop_argument(pc + 1 + ARG_SIZE)
        npc        == pc + 1 + 2 * ARG_SIZE
    IN  IF ~IsSome(addr) THEN ArgError(pc + 1 + ARG_SIZE)
        ELSE IF ~IsSome(proc_index) THEN ArgError(npc)
        ELSE IF Unwrap(addr) < 0 THEN Ends("error", "pl0.invalid_global_var_val", npc)
        ELSE IF i16_as_usize(Unwrap(proc_index)) >= Len(procedures)
        THEN Panic("panic: index out of bounds", npc)
        ELSE push_value_at(npc,
                Unwrap(offsetted(procedures[Unwrap(proc_index) + 1].frame_ptr,
                                 Unwrap(addr))))

\* PushAddressLocalVar, lines 491-503
ExecPushAddressLocalVar ==
    LET addr == pop_argument(pc + 1)
        npc  == pc + 1 + ARG_SIZE
    IN  IF ~IsSome(addr) THEN ArgError(npc)
        ELSE IF Unwrap(addr) < 0 THEN Ends("error", "pl0.invalid_local_var_addr", npc)
        ELSE push_address(npc, Unwrap(offsetted(fp, Unwrap(addr))))

\* PushAddressMainVar, lines 504-516
ExecPushAddressMainVar ==
    LET addr == pop_argument(pc + 1)
        npc  == pc + 1 + ARG_SIZE
    IN  IF ~IsSome(addr) THEN ArgError(npc)
        ELSE IF Unwrap(addr) < 0 THEN Ends("error", "pl0.invalid_main_var_addr", npc)
        ELSE push_address(npc, Unwrap(offsetted(procedures[1].frame_ptr, Unwrap(addr))))

\* PushAddressGlobalVar, lines 517-535
ExecPushAddressGlobalVar ==
    LET addr       == pop_argument(pc + 1)
        proc_index == pop_argument(pc + 1 + ARG_SIZE)
        npc        == pc + 1 + 2 * ARG_SIZE
    IN  IF ~IsSome(addr) THEN ArgError(pc + 1 + ARG_SIZE)
        ELSE IF ~IsSome(proc_index) THEN ArgError(npc)
        ELSE IF Unwrap(addr) < 0 THEN Ends("error", "pl0.invalid_global_var_addr", npc)
        ELSE IF i16_as_usize(Unwrap(proc_index)) >= Len(procedures)
        THEN Panic("panic: index out of bounds", npc)
        ELSE push_address(npc,
                Unwrap(offsetted(procedures[Unwrap(proc_index) + 1].frame_ptr,
                                 Unwrap(addr))))

\* PushConstant, lines 536-548
ExecPushConstant ==
    LET c   == pop_argument(pc + 1)
        npc == pc + 1 + ARG_SIZE
    IN  IF ~IsSome(c) THEN ArgError(npc)
        ELSE IF Unwrap(c) < 0 THEN Ends("error", "pl0.invalid_constant", npc)
        ELSE IF Unwrap(c) >= Len(constants)
        THEN Panic("panic: index out of bounds", npc)
        ELSE Pushed(npc, stack, constants[Unwrap(c) + 1])

\* StoreValue, lines 549-560
ExecStoreValue ==
    LET data == pop_data(stack)
        addr == pop_data(data.stack)
    IN  IF data.k = "none" THEN StackError(pc + 1, data.stack)
        ELSE IF addr.k = "none" THEN StackError(pc + 1, addr.stack)
        ELSE IF i64_as_usize(i64(addr.v)) >= Huge
        THEN [Panic("panic: capacity overflow", pc + 1) EXCEPT !.stack = addr.stack]
        ELSE [Continue(pc + 1) EXCEPT
                !.stack = set_addr(addr.stack, i64_as_usize(i64(addr.v)), data.v)]

\* OutputValue, lines 562-572
ExecOutputValue ==
    LET data == pop_data(stack)
    IN  IF data.k = "none" THEN StackError(pc + 1, data.stack)
        ELSE [Continue(pc + 1) EXCEPT
                !.stack = data.stack,
                !.out = << Line("value", pc, to_decimal(i64(data.v))) >>]

\* InputToAddr up to its input loop, lines 573-579
ExecInputToAddr ==
    LET addr == pop_data(stack)
    IN  IF addr.k = "none" THEN StackError(pc + 1, addr.stack)
        ELSE [Ends("input", "", pc + 1) EXCEPT !.stack = addr.stack,
                                               !.in_addr = addr.v]

\* Minusify, lines 596-606: the negation is done in the data's own width
ExecMinusify ==
    LET int == pop_data(stack)
    IN  IF int.k = "none" THEN StackError(pc + 1, int.stack)
        ELSE IF IsMin(int.v) /\ overflow_checks
        THEN [Panic("panic: attempt to negate with overflow", pc + 1) EXCEPT
                !.stack = int.stack]
        ELSE Pushed(pc + 1, int.stack, WrappingNeg(int.v))

\* IsOdd, lines 607-615
ExecIsOdd ==
    LET int == pop_data(stack)
    IN  IF int.k = "none" THEN StackError(pc + 1, int.stack)
        ELSE Pushed(pc + 1, int.stack, data_bool(RemTwoIsOne(i64(int.v))))

\* the two pops every binary opcode starts with: right first, then left,
\* both widened to i64
binary_operands ==
    LET right == pop_data(stack)
        left  == pop_data(right.stack)
    IN  IF right.k = "none"
        THEN [ok |-> FALSE, stack |-> right.stack, left |-> << >>, right |-> << >>]
        ELSE IF left.k = "none"
        THEN [ok |-> FALSE, stack |-> left.stack, left |-> << >>, right |-> << >>]
        ELSE [ok |-> TRUE, stack |-> left.stack, left |-> i64(left.v),
              right |-> i64(right.v)]

\* OpAdd, lines 617-631
ExecOpAdd ==
    LET o == binary_operands
    IN  IF ~o.ok THEN StackError(pc + 1, o.stack)
        ELSE IF AddOverflows(o.left, o.right) /\ overflow_checks
        THEN [Panic("panic: attempt to add with overflow", pc + 1) EXCEPT
                !.stack = o.stack]
        ELSE Pushed(pc + 1, o.stack, narrow(WrappingAdd(o.left, o.right)))

\* OpSubtract, lines 632-646
ExecOpSubtract ==
    LET o == binary_operands
    IN  IF ~o.ok THEN StackError(pc + 1, o.stack)
        ELSE IF SubOverflows(o.left, o.right) /\ overflow_checks
        THEN [Panic("panic: attempt to subtract with overflow", pc + 1) EXCEPT
                !.stack = o.stack]
        ELSE Pushed(pc + 1, o.stack, narrow(WrappingSub(o.left, o.right)))

\* OpMultiply, lines 647-661
ExecOpMultiply ==
    LET o == binary_operands
    IN  IF ~o.ok THEN StackError(pc + 1, o.stack)
        ELSE IF MulOverflows(o.left, o.right) /\ overflow_checks
        THEN [Panic("panic: attempt to multiply with overflow", pc + 1) EXCEPT
                !.stack = o.stack]
        ELSE Pushed(pc + 1, o.stack, narrow(WrappingMul(o.left, o.right)))

\* OpDivide, lines 662-676: i64 division panics for a zero divisor and for
\* i64::MIN / -1 on every build
ExecOpDivide ==
    LET o == binary_operands
    IN  IF ~o.ok THEN StackError(pc + 1, o.stack)
        ELSE IF IsZero(o.right)
        THEN [Panic("panic: attempt to divide by zero", pc + 1) EXCEPT
                !.stack = o.stack]
        ELSE IF DivOverflows(o.left, o.right)
        THEN [Panic("panic: attempt to divide with overflow", pc + 1) EXCEPT
                !.stack = o.stack]
        ELSE Pushed(pc + 1, o.stack, narrow(WrappingDiv(o.left, o.right)))

\* the comparison opcodes, lines 678-755: the operands o, and whether the
\* comparison holds
compare(o, val) ==
    IF ~o.ok THEN StackError(pc + 1, o.stack)
    ELSE Pushed(pc + 1, o.stack, data_bool(val))

ExecCompareEq ==
    LET o == binary_operands IN compare(o, o.ok /\ o.left = o.right)
ExecCompareNotEq ==
    LET o == binary_operands IN compare(o, o.ok /\ o.left # o.right)
ExecCompareLT ==
    LET o == binary_operands IN compare(o, o.ok /\ LessSigned(o.left, o.right))
ExecCompareGT ==
    LET o == binary_operands IN compare(o, o.ok /\ LessSigned(o.right, o.left))
ExecCompareLTEq ==
    LET o == binary_operands IN compare(o, o.ok /\ ~LessSigned(o.right, o.left))
ExecCompareGTEq ==
    LET o == binary_operands IN compare(o, o.ok /\ ~LessSigned(o.left, o.right))

\* the branch of Jump and JumpIfFalse: pc = offsetted(&pc, offset as isize)
branch(npc, offset) ==
    LET target == offsetted(npc, offset)
    IN  IF IsSome(target) THEN Continue(Unwrap(target))
        ELSE Panic("panic: invalid variable offset", npc)

\* Jump, lines 757-764
ExecJump ==
    LET offset == pop_argument(pc + 1)
        npc    == pc + 1 + ARG_SIZE
    IN  IF ~IsSome(offset) THEN ArgError(npc) ELSE branch(npc, Unwrap(offset))

\* a JumpIfFalse that looks at the lowest byte of the value only: it takes
\* the branch for a value such as 256 or the minimum, which are not 0
ExecJumpIfLowByteFalse ==
    LET dat    == pop_data(stack)
        offset == pop_argument(pc + 1)
        npc    == pc + 1 + ARG_SIZE
    IN  IF dat.k = "none" THEN StackError(pc + 1, dat.stack)
        ELSE IF ~IsSome(offset) THEN [ArgError(npc) EXCEPT !.stack = dat.stack]
        ELSE IF dat.v[1] = 0
        THEN [branch(npc, Unwrap(offset)) EXCEPT !.stack = dat.stack]
        ELSE [Continue(npc) EXCEPT !.stack = dat.stack]

\* JumpIfFalse, lines 765-779
ExecJumpIfFalse ==
    LET dat    == pop_data(stack)
        offset == pop_argument(pc + 1)
        npc    == pc + 1 + ARG_SIZE
    IN  IF dat.k = "none" THEN StackError(pc + 1, dat.stack)
        ELSE IF ~IsSome(offset) THEN [ArgError(npc) EXCEPT !.stack = dat.stack]
        ELSE IF IsZero(i64(dat.v))
        THEN [branch(npc, Unwrap(offset)) EXCEPT !.stack = dat.stack]
        ELSE [Continue(npc) EXCEPT !.stack = dat.stack]

\* PutString, lines 781-796
ExecPutString ==
    LET bytes == take_while_not_nul(program, pc + 1)
        npc   == pc + 1 + Len(bytes) + 1
    IN  IF ~valid_utf8(bytes) THEN Ends("break", "pl0.invalid_str", npc)
        ELSE [Continue(npc) EXCEPT !.out = << Line("string", pc, bytes) >>]

\* Pop, lines 798-807: only the traced run looks at what pop_data returned
ExecPopWith(traced) ==
    LET data == pop_data(stack)
    IN  IF traced /\ data.k = "none" THEN StackError(pc + 1, data.stack)
        ELSE [Continue(pc + 1) EXCEPT !.stack = data.stack]
ExecPop == ExecPopWith(debug)

\* Swap, lines 808-819
ExecSwap ==
    LET offset == pop_data(stack)
    IN  IF offset.k = "none" THEN StackError(pc + 1, offset.stack)
        ELSE LET data == bytes_to_data(get_from(offset.stack,
                                                i64_as_usize(i64(offset.v))))
             IN  IF data.k = "none" THEN StackError(pc + 1, offset.stack)
                 ELSE IF data.k = "panic"
                 THEN [Panic("panic: range end index out of range for slice", pc + 1)
                         EXCEPT !.stack = offset.stack]
                 ELSE Pushed(pc + 1, offset.stack, data.v)

\* EndOfCode, lines 821-824
ExecEndOfCode == Ends("end_of_code", "", pc + 1)

\* a Put that is skipped as if it had no effect: C14 does not hold of it
ExecPutSkipped == Continue(pc + 1)

\* Put, Get, OpAddAddr, lines 826-828: todo!()
ExecPut == Panic("panic: not yet implemented", pc + 1)
ExecGet == Panic("panic: not yet implemented", pc + 1)
ExecOpAddAddr == Panic("panic: not yet implemented", pc + 1)

(***************************************************************************)
(* execute: the main loop.  One step is one pass: fetch, dispatch, and the *)
(* opcode's arm.                                                           *)
(***************************************************************************)
MaxSteps == 40
MaxStderr == 3

\* the offset of the last operand byte an instruction at `at` can read
operand_extent(op, at) ==
    IF op \in {PushValueLocalVar, PushValueMainVar, PushAddressLocalVar,
               PushAddressMainVar, PushConstant, CallProc, Jump, JumpIfFalse}
    THEN at + ARG_SIZE
    ELSE IF op \in {PushValueGlobalVar, PushAddressGlobalVar} THEN at + 2 * ARG_SIZE
    ELSE IF op = EntryProc THEN at + 3 * ARG_SIZE
    ELSE IF op = PutString THEN at + Len(take_while_not_nul(program, at + 1)) + 1
    ELSE at

Step(op, e) ==
    /\ task = "run"
    /\ steps < MaxSteps
    /\ pc < Len(program)
    /\ program[pc + 1] = op
    /\ pc' = e.pc
    /\ stack' = e.stack
    /\ fp' = e.fp
    /\ cur_proc_i' = e.cur
    /\ procedures' = e.procedures
    /\ in_addr' = e.in_addr
    /\ stdout' = stdout \o (IF debug THEN << Line("trace", pc, << op >>) >> ELSE << >>)
                        \o e.out
    /\ stderr' = IF e.msg = "" THEN stderr ELSE Append(stderr, e.msg)
    /\ task' = IF e.k \in {"run", "input"} THEN e.k ELSE "returned"
    /\ x_end' = IF e.k \in {"run", "input"} THEN "" ELSE e.k
    /\ steps' = steps + 1
    /\ read_hi' = Max(read_hi, Min(operand_extent(op, pc), Len(program) - 1))
    /\ last' = [op |-> op, at |-> pc, stack |-> stack, fp |-> fp, cur |-> cur_proc_i,
                procedures |-> procedures,
                call |-> IF op = ReturnProc /\ e.k = "run" /\ Len(calls) > 0
                         THEN calls[Len(calls)] ELSE NoCall]
    /\ calls' = IF op = CallProc /\ e.k = "run"
                THEN Append(calls, [at |-> pc, ret |-> pc + 1 + ARG_SIZE,
                                    len |-> Len(stack), fp |-> fp, cur |-> cur_proc_i,
                                    frame_ptr |-> Len(e.stack)])
                ELSE IF op = ReturnProc /\ e.k = "run" /\ Len(calls) > 0
                THEN SubSeq(calls, 1, Len(calls) - 1)
                ELSE calls
    /\ UNCHANGED << buildVars, vmVars, analysisVars, loaderVars, constants, stdin >>

DoPushValueLocalVar == Step(PushValueLocalVar, ExecPushValueLocalVar)
DoPushValueMainVar == Step(PushValueMainVar, ExecPushValueMainVar)
DoPushValueGlobalVar == Step(PushValueGlobalVar, ExecPushValueGlobalVar)
DoPushAddressLocalVar == Step(PushAddressLocalVar, ExecPushAddressLocalVar)
DoPushAddressMainVar == Step(PushAddressMainVar, ExecPushAddressMainVar)
DoPushAddressGlobalVar == Step(PushAddressGlobalVar, ExecPushAddressGlobalVar)
DoPushConstant == Step(PushConstant, ExecPushConstant)
DoStoreValue == Step(StoreValue, ExecStoreValue)
DoOutputValue == Step(OutputValue, ExecOutputValue)
DoInputToAddr == Step(InputToAddr, ExecInputToAddr)
DoMinusify == Step(Minusify, ExecMinusify)
DoIsOdd == Step(IsOdd, ExecIsOdd)
DoOpAdd == Step(OpAdd, ExecOpAdd)
DoOpSubtract == Step(OpSubtract, ExecOpSubtract)
DoOpMultiply == Step(OpMultiply, ExecOpMultiply)
DoOpDivide == Step(OpDivide, ExecOpDivide)
DoCompareEq == Step(CompareEq, ExecCompareEq)
DoCompareNotEq == Step(CompareNotEq, ExecCompareNotEq)
DoCompareLT == Step(CompareLT, ExecCompareLT)
DoCompareGT == Step(CompareGT, ExecCompareGT)
DoCompareLTEq == Step(CompareLTEq, ExecCompareLTEq)
DoCompareGTEq == Step(CompareGTEq, ExecCompareGTEq)
DoCallProc == Step(CallProc, ExecCallProc)
DoReturnProc == Step(ReturnProc, ExecReturnProc)
DoJump == Step(Jump, ExecJump)
DoJumpIfFalse == Step(JumpIfFalse, ExecJumpIfFalse)
DoEntryProc == Step(EntryProc, ExecEntryProc)
DoPutString == Step(PutString, ExecPutString)
DoPop == Step(Pop, ExecPop)
DoSwap == Step(Swap, ExecSwap)
DoEndOfCode == Step(EndOfCode, ExecEndOfCode)
DoPut == Step(Put, ExecPut)
DoGet == Step(Get, ExecGet)
DoOpAddAddr == Step(OpAddAddr, ExecOpAddAddr)

\* how a pass ends that dispatches nothing
FetchEnds(kind, msg) ==
    /\ x_end' = kind
    /\ stderr' = Append(stderr, msg)
    /\ task' = "returned"
    /\ last' = [NoInstruction EXCEPT !.at = pc, !.stack = stack, !.fp = fp,
                                     !.cur = cur_proc_i, !.procedures = procedures]
    /\ UNCHANGED << buildVars, vmVars, analysisVars, loaderVars, procedures,
                    constants, pc, stack, fp, cur_proc_i, in_addr, steps, calls,
                    stdin, stdout >>

\* line 373: self.program[pc] with pc beyond the program panics
FetchOutOfBounds ==
    /\ task = "run"
    /\ pc >= Len(program)
    /\ read_hi' = read_hi
    /\ FetchEnds("panic", "panic: index out of bounds")

\* lines 376-382: a byte that is no opcode
UnknownOpcode ==
    /\ task = "run"
    /\ pc < Len(program)
    /\ ~OpCodeKnown(program[pc + 1])
    /\ read_hi' = Max(read_hi, pc)
    /\ FetchEnds("break", "pl0.unknown_opcode")

(***************************************************************************)
(* InputToAddr's input loop, lines 580-593: one line of input per step.    *)
(***************************************************************************)
IsSpace(c) == c \in {9, 10, 11, 12, 13, 32}
IsDigit(c) == 48 <= c /\ c <= 57

RECURSIVE trim_start(_)
trim_start(line) ==
    IF Len(line) > 0 /\ IsSpace(line[1]) THEN trim_start(Tail(line)) ELSE line
RECURSIVE trim_end(_)
trim_end(line) ==
    IF Len(line) > 0 /\ IsSpace(line[Len(line)])
    THEN trim_end(SubSeq(line, 1, Len(line) - 1)) ELSE line
\* str::trim
trim(line) == trim_end(trim_start(line))

RECURSIVE parse_digits(_, _, _)
\* the number of the digits on top of acc (9 bytes, unsigned); None for a
\* character that is no digit and for a number above limit
parse_digits(digits, acc, limit) ==
    IF Len(digits) = 0 THEN Some(acc)
    ELSE IF ~IsDigit(digits[1]) THEN None
    ELSE LET next == WrappingAdd(WrappingMul(acc, to_le_bytes(10, 9)),
                                 to_le_bytes(digits[1] - 48, 9))
         IN  IF LessUnsigned(limit, next) THEN None
             ELSE parse_digits(Tail(digits), next, limit)

\* a parser that takes a text that is no number for the number 0
parse_i64_lenient(text) == Some(Zeros(8))

\* str::parse::<i64>: an optional sign and at least one digit, within i64
parse_i64(text) ==
    LET negative == Len(text) > 0 /\ text[1] = 45
        digits   == IF Len(text) > 0 /\ text[1] \in {43, 45} THEN Tail(text) ELSE text
        limit    == IF negative THEN MinValue(8) \o << 0 >> ELSE MaxValue(8) \o << 0 >>
        mag      == parse_digits(digits, Zeros(9), limit)
    IN  IF Len(digits) = 0 \/ ~IsSome(mag) THEN None
        ELSE IF negative THEN Some(WrappingNeg(SubSeq(Unwrap(mag), 1, 8)))
        ELSE Some(SubSeq(Unwrap(mag), 1, 8))

\* read_line at the end of the input reads nothing: the line is empty
InputLine ==
    /\ task = "input"
    /\ Len(stderr) < MaxStderr
    /\ LET line   == IF Len(stdin) > 0 THEN Head(stdin) ELSE << >>
           input  == parse_i64(trim(line))
           target == offsetted(fp, i64_as_isize(i64(in_addr)))
           big    == Len(i64(in_addr)) = 8 /\ ~IsNegative(i64(in_addr))
                     /\ u64_as_usize(i64(in_addr)) >= Huge
       IN  /\ stdin' = IF Len(stdin) > 0 THEN Tail(stdin) ELSE stdin
           /\ IF ~IsSome(input)
              THEN /\ stderr' = Append(stderr, "pl0.invalid_number_input")
                   /\ UNCHANGED << task, x_end, stack >>
              ELSE IF big \/ ~IsSome(target) \/ Unwrap(target) >= Huge
              THEN /\ stderr' = Append(stderr,
                                   IF ~big /\ ~IsSome(target)
                                   THEN "panic: invalid variable offset"
                                   ELSE "panic: capacity overflow")
                   /\ task' = "returned"
                   /\ x_end' = "panic"
                   /\ UNCHANGED stack
              ELSE /\ stack' = set_addr(stack, Unwrap(target),
                                        bytes_to_data(Some(Unwrap(input))).v)
                   /\ task' = "run"
                   /\ UNCHANGED << stderr, x_end >>
    /\ UNCHANGED << buildVars, vmVars, analysisVars, loaderVars, procedures,
                    constants, pc, fp, cur_proc_i, in_addr, steps, last, calls,
                    stdout, read_hi >>

(***************************************************************************)
(* print_analysis: one iteration of its loop per step; the iteration that  *)
(* leaves the loop also prints the constants.                              *)
(***************************************************************************)
\* print_arg: the operand at `at` if there is one; pc advances only then
print_arg(at) ==
    LET val == read_arg(at)
    IN  IF IsSome(val) THEN [pc |-> at + ARG_SIZE, printed |-> << Unwrap(val) >>]
        ELSE [pc |-> at, printed |-> << >>]

AnalysisResult(kind, msg, at, rem, count, args) ==
    [k |-> kind, msg |-> msg, pc |-> at, rem |-> rem, count |-> count, args |-> args]

\* a target counted from the operand instead of from the byte after it: the
\* engine does not branch there
analysis_target_from_operand(at, arg) == checked_add_signed(at, arg)

\* the target print_analysis resolves for the jump whose operand is at `at`
analysis_target(at, arg) == checked_add_signed(at + ARG_SIZE, arg)

\* one pass through the loop body from `at`, up to the subtraction from
\* rem_bytes: k is "next" (go on), "break", "error" (return) or "panic"
analysis_iteration(at, rem, count) ==
    IF at >= Len(program)
    THEN AnalysisResult("error", "pl0.error.invalid_pc", at, rem, count, << >>)
    ELSE LET byte == program[at + 1]
             p    == at + 1
         IN
    IF ~OpCodeKnown(byte)
    THEN AnalysisResult("break", "pl0.unknown_opcode", at, rem, count, << >>)
    ELSE IF byte \in {PushValueLocalVar, PushValueMainVar, PushAddressLocalVar,
                      PushAddressMainVar, CallProc, PushConstant}
    THEN LET a == print_arg(p)
         IN  AnalysisResult("next", "", a.pc, rem, count, << byte >> \o a.printed)
    ELSE IF byte \in {Jump, JumpIfFalse}
    THEN LET arg == read_arg(p)
         IN  IF ~IsSome(arg)
             THEN AnalysisResult("error", "pl0.error.invalid_arg_read", p, rem, count,
                                 << byte >>)
             ELSE IF ~IsSome(analysis_target(p, Unwrap(arg)))
             THEN AnalysisResult("break", "pl0.invalid_jump", p, rem, count, << byte >>)
             ELSE AnalysisResult("next", "", p + ARG_SIZE, rem, count,
                     << byte, Unwrap(arg), Unwrap(analysis_target(p, Unwrap(arg))) >>)
    ELSE IF byte \in {PushValueGlobalVar, PushAddressGlobalVar}
    THEN LET a == print_arg(p)
             b == print_arg(a.pc)
         IN  AnalysisResult("next", "", b.pc, rem, count,
                            << byte >> \o a.printed \o b.printed)
    ELSE IF byte = EntryProc
    THEN LET len == read_arg(p)
             pid == read_arg(p + ARG_SIZE)
             c   == print_arg(p + 2 * ARG_SIZE)
         IN  IF ~IsSome(len)
             THEN AnalysisResult("error", "pl0.error.invalid_arg_read", p, rem, count,
                                 << byte >>)
             ELSE IF ~IsSome(pid)
             THEN AnalysisResult("error", "pl0.error.invalid_arg_read", p + ARG_SIZE,
                                 Unwrap(len), count, << byte, Unwrap(len) >>)
             ELSE IF count = -32768 /\ overflow_checks
             THEN AnalysisResult("panic", "panic: attempt to subtract with overflow",
                                 c.pc, Unwrap(len), count,
                                 << byte, Unwrap(len), Unwrap(pid) >> \o c.printed)
             ELSE AnalysisResult("next", "", c.pc, Unwrap(len), as_i16(count - 1),
                                 << byte, Unwrap(len), Unwrap(pid) >> \o c.printed)
    ELSE IF byte = PutString
    THEN LET strb == take_while_not_nul(program, p)
         IN  IF ~valid_utf8(strb)
             THEN AnalysisResult("break", "pl0.invalid_str", p + Len(strb) + 1, rem,
                                 count, << byte >>)
             ELSE AnalysisResult("next", "", p + Len(strb) + 1, rem, count,
                                 << byte >> \o strb)
    ELSE AnalysisResult("next", "", p, rem, count, << byte >>)

\* the lines of the constants printed from position at
constant_lines(at) ==
    [i \in 1..constant_count(at) |->
        Line("constant", i - 1, read_data(at + data_size * (i - 1)).v)]

\* what follows the loop, line 235, from position at
AnalysisTail(at, out, err, how) ==
    IF at > Len(program)
    THEN \* len - pc: a panic where overflow is checked; wrapped, a count of
         \* constants the closure reports missing one by one without end
         /\ stdout' = out
         /\ stderr' = Append(err, IF overflow_checks
                                  THEN "panic: attempt to subtract with overflow"
                                  ELSE "pl0.error.invalid_constant_read")
         /\ a_end' = IF overflow_checks THEN "panic" ELSE "spin"
         /\ task' = IF overflow_checks THEN "returned" ELSE "hung"
         /\ read_hi' = read_hi
    ELSE /\ stdout' = out \o constant_lines(at)
         /\ stderr' = err
         /\ a_end' = how
         /\ task' = "loaded"
         /\ read_hi' = Max(read_hi, Max(Min(at, Len(program) - 1),
                                        at + constant_count(at) * data_size - 1))

PrintAnalysis ==
    /\ task = "analysis"
    /\ LET it   == analysis_iteration(a_pc, a_rem_bytes, a_procedure_count)
           sub  == it.rem - as_i16(it.pc - a_pc)
           out  == IF Len(it.args) > 0
                   THEN Append(stdout, Line("instr", a_pc, it.args)) ELSE stdout
           err  == IF it.msg = "" THEN stderr ELSE Append(stderr, it.msg)
       IN  /\ a_pc' = it.pc
           /\ a_procedure_count' = it.count
           /\ IF it.k \in {"error", "panic"}
              THEN /\ a_rem_bytes' = it.rem
                   /\ stdout' = out
                   /\ stderr' = err
                   /\ a_end' = it.k
                   /\ task' = IF it.k = "error" THEN "loaded" ELSE "returned"
                   /\ read_hi' = Max(read_hi, Min(it.pc, Len(program)) - 1)
              ELSE IF it.k = "break"
              THEN /\ a_rem_bytes' = it.rem
                   /\ AnalysisTail(it.pc, out, err, "break")
              ELSE IF ~i16_fits(sub) /\ overflow_checks
              THEN /\ a_rem_bytes' = it.rem
                   /\ stdout' = out
                   /\ stderr' = Append(err, "panic: attempt to subtract with overflow")
                   /\ a_end' = "panic"
                   /\ task' = "returned"
                   /\ read_hi' = Max(read_hi, Min(it.pc, Len(program)) - 1)
              ELSE /\ a_rem_bytes' = as_i16(sub)
                   /\ IF scan_ends(as_i16(sub), it.count)
                      THEN AnalysisTail(it.pc, out, err, "done")
                      ELSE /\ stdout' = out
                           /\ stderr' = err
                           /\ read_hi' = Max(read_hi, Min(it.pc, Len(program)) - 1)
                           /\ UNCHANGED << a_end, task >>
    /\ UNCHANGED << buildVars, vmVars, loaderVars, engineVars, stdin >>

(***************************************************************************)
(* The specification.                                                      *)
(***************************************************************************)
Next ==
    \/ FromFile
    \/ PrintAnalysisHeader
    \/ PrintAnalysis
    \/ ExecuteHeader
    \/ LoadData
    \/ FetchOutOfBounds
    \/ UnknownOpcode
    \/ DoPushValueLocalVar
    \/ DoPushValueMainVar
    \/ DoPushValueGlobalVar
    \/ DoPushAddressLocalVar
    \/ DoPushAddressMainVar
    \/ DoPushAddressGlobalVar
    \/ DoPushConstant
    \/ DoStoreValue
    \/ DoOutputValue
    \/ DoInputToAddr
    \/ InputLine
    \/ DoMinusify
    \/ DoIsOdd
    \/ DoOpAdd
    \/ DoOpSubtract
    \/ DoOpMultiply
    \/ DoOpDivide
    \/ DoCompareEq
    \/ DoCompareNotEq
    \/ DoCompareLT
    \/ DoCompareGT
    \/ DoCompareLTEq
    \/ DoCompareGTEq
    \/ DoCallProc
    \/ DoReturnProc
    \/ DoJump
    \/ DoJumpIfFalse
    \/ DoEntryProc
    \/ DoPutString
    \/ DoPop
    \/ DoSwap
    \/ DoEndOfCode
    \/ DoPut
    \/ DoGet
    \/ DoOpAddAddr

Spec == Init /\ [][Next]_vars

(***************************************************************************)
(* The properties.  `last` is the instruction dispatched last, with the    *)
(* stack, fp and cur_proc_i it was dispatched on; for a ReturnProc that    *)
(* returned to a caller, last.call is the CallProc it matches: where the   *)
(* call was, and the stack length, fp and cur_proc_i at its dispatch.      *)
(***************************************************************************)
\* a ReturnProc has just returned to the caller of a matching CallProc
Returned == last.op = ReturnProc /\ last.call # NoCall

\* C1: stack neutrality.  Immediately after a ReturnProc, the length of the
\* runtime stack and the frame pointer fp equal what they were immediately
\* before the matching CallProc was dispatched, at every nesting depth and
\* also for a procedure that calls itself and reserves local bytes.
C1_StackNeutrality ==
    Returned => Len(stack) = last.call.len /\ fp = last.call.fp

\* the programs of Scenario C: main calls A, A calls B, ids 0, 1, 2
NestFiles ==
    { NestProgram(w, rM, rA, rB) : w \in Widths, rM \in {0, 4}, rA \in {0, 8},
                                   rB \in {0, 2} }
ScenarioC == file.ok /\ file.bytes \in NestFiles

\* C2: Scenario C.  When main calls A and A calls B, then after each
\* ReturnProc the program counter is the offset just past the operand of
\* the matching CallProc, and fp and cur_proc_i are what they were when
\* that CallProc was dispatched.
C2_ReturnRestores ==
    (ScenarioC /\ Returned) =>
        /\ pc = last.call.at + 1 + ARG_SIZE
        /\ fp = last.call.fp
        /\ cur_proc_i = last.call.cur

\* B has returned into A, which main called: the second nesting depth, with
\* frames that reserve bytes
C2_Witness ==
    /\ ScenarioC /\ Returned
    /\ Len(calls) = 1 /\ cur_proc_i = 1 /\ last.cur = 2
    /\ fp > 0 /\ last.fp > fp + 24
    /\ pc = last.call.at + 1 + ARG_SIZE

\* the lines OutputValue printed, in order
ValuesPrinted == SelectSeq(stdout, LAMBDA l : l.k = "value")

\* Scenario A's file, with EntryProc's length field as given
IsScenarioA(len) == file.ok /\ file.bytes = ScenarioA(len)

\* what Scenario A promises of a run of the file whose EntryProc declares
\* len bytes: the pool's entry 0 is 42; 42 is printed once, by the
\* OutputValue at offset 14; and the run ends after its fourth instruction,
\* the ReturnProc of procedure 0
ScenarioAHolds(len) ==
    IsScenarioA(len) =>
        /\ task \in {"run", "input", "returned"} =>
              Len(constants) >= 1 /\ constants[1] = Value(42, 4)
        /\ steps <= 4
        /\ x_end # "" =>
              /\ x_end = "exit" /\ steps = 4
              /\ last.op = ReturnProc /\ last.cur = 0
              /\ ValuesPrinted = << Line("value", 14, << 52, 50 >>) >>
        /\ x_end = "" => Len(ValuesPrinted) = IF steps = 3 THEN 1 ELSE 0

\* C3 as the specification states it: Scenario A with EntryProc(len=0, id=0,
\* reserved=0).  The loader builds a pool whose entry 0 is 42, and execute
\* prints 42 once and halts normally through ReturnProc in procedure 0.
C3_ScenarioA_AsStated == ScenarioAHolds(0)

\* C3, amended: Scenario A with EntryProc's length field 12, the 7 bytes of
\* the EntryProc instruction and the 5 bytes after it up to the pool.  The
\* loader builds a pool whose entry 0 is 42, and execute prints 42 once and
\* halts normally through ReturnProc in procedure 0.
C3_ScenarioA ==
    ScenarioAHolds(12)

\* the run of the amended Scenario A has ended, having printed 42
C3_Witness ==
    /\ IsScenarioA(12) /\ x_end = "exit" /\ ~debug
    /\ constants = << Value(42, 4) >>
    /\ stdout = << Line("value", 14, << 52, 50 >>) >>

\* the width field of the file read, where the file has one
HasWidth == file.ok /\ Len(file.bytes) >= 2 * ARG_SIZE
Width == i16_from_le_bytes(file.bytes[ARG_SIZE + 1], file.bytes[ARG_SIZE + 2])

\* C4: load (from_file) fails, returning an error and no VM, for every
\* buffer of length <= 4 and for every buffer whose width field is not 2, 4
\* or 8; it succeeds only for length > 4 with a width in {2, 4, 8}.
C4_LoadValidates ==
    (file.ok /\ task # "new") =>
        (task # "failed" <=>
            (Len(file.bytes) > 4 /\ HasWidth /\ Width \in {2, 4, 8}))

\* Scenario B: the file has a width field, and it is not 2, 4 or 8
BadWidth == HasWidth /\ Width \notin {2, 4, 8}

\* C5: Scenario B.  When the width field is not 2, 4 or 8, print_analysis
\* and execute each report an error and stop without reading a byte at
\* offset >= 4: no procedure table and no constant pool is built, neither
\* scan starts, no runtime stack is created and no opcode is dispatched.
C5_BadWidthStopsAtHeader ==
    BadWidth =>
        /\ read_hi <= 3
        /\ task \in {"new", "loaded", "returned"}
        /\ procedures = << >> /\ constants = << >> /\ l_procedures = << >>
        /\ stack = << >> /\ steps = 0 /\ last = NoInstruction
        /\ a_end \in {"", "error"} /\ x_end \in {"", "error"}
        /\ Len(stderr) = (IF a_end = "" THEN 0 ELSE 1) + (IF x_end = "" THEN 0 ELSE 1)
        /\ \A i \in 1..Len(stderr) : stderr[i] \in {"pl0.invalid_file", "pl0.arch_invalid"}
        /\ task = "returned" <=> x_end = "error"

\* print_analysis and execute have both refused a file of width 3 with code
\* after its header
C5_Witness ==
    /\ BadWidth /\ Width = 3 /\ Len(file.bytes) > 4
    /\ a_end = "error" /\ x_end = "error"
    /\ stderr = << "pl0.arch_invalid", "pl0.arch_invalid" >>
    /\ read_hi = 3

\* the stack the last instruction was dispatched on held two values; Right
\* was on top and Left below it (pushed first), both widened to i64
TwoOperands == Len(last.stack) >= 2 * data_size
Right ==
    i64(SubSeq(last.stack, Len(last.stack) - data_size + 1, Len(last.stack)))
Left ==
    i64(SubSeq(last.stack, Len(last.stack) - 2 * data_size + 1,
               Len(last.stack) - data_size))
BelowOperands == SubSeq(last.stack, 1, Len(last.stack) - 2 * data_size)

\* the 64-bit two's-complement result of Left op Right
Result64 ==
    IF last.op = OpAdd THEN WrappingAdd(Left, Right)
    ELSE IF last.op = OpSubtract THEN WrappingSub(Left, Right)
    ELSE WrappingMul(Left, Right)

\* C6: the wraparound law.  For every width and every pair of operands,
\* OpAdd, OpSubtract and OpMultiply pop right then left and push exactly the
\* low data_size bytes of the 64-bit two's-complement result of left op
\* right, and execution goes on.
C6_Wraparound ==
    (last.op \in {OpAdd, OpSubtract, OpMultiply} /\ TwoOperands) =>
        /\ task = "run"
        /\ stack = BelowOperands \o SubSeq(Result64, 1, data_size)

\* execute has ended by reporting an error of its own (x_end is "error", and
\* the message is on stderr), not by a panic (x_end is "panic")
StructuredError ==
    x_end = "error" /\ task = "returned" /\ Len(stderr) > 0

\* C7: OpDivide with a right operand of 0 is trapped: execution ends with a
\* reported error value, not with a panic of the host, and no result is
\* pushed.
C7_DivideByZeroTrapped ==
    (last.op = OpDivide /\ TwoOperands /\ IsZero(Right)) =>
        /\ StructuredError
        /\ stack = BelowOperands

\* the last instruction was a Jump, or a JumpIfFalse that popped a zero, and
\* it has branched
Branched ==
    /\ task = "run"
    /\ \/ last.op = Jump
       \/ /\ last.op = JumpIfFalse
          /\ Len(last.stack) >= data_size
          /\ IsZero(SubSeq(last.stack, Len(last.stack) - data_size + 1,
                           Len(last.stack)))
\* its offset operand, at position last.at + 1
BranchOffset == Unwrap(read_arg(last.at + 1))
\* the lines print_analysis printed for the same instruction
AnalysedBranch ==
    { i \in 1..Len(stdout) :
        stdout[i].k = "instr" /\ stdout[i].at = last.at /\ stdout[i].args[1] = last.op }

\* C8: for every Jump and every taken JumpIfFalse the engine's pc is
\* (position of the offset operand + 2) + the signed offset, and the target
\* print_analysis printed for that instruction is that pc.
C8_BranchTarget ==
    Branched =>
        /\ pc = (last.at + 1) + 2 + BranchOffset
        /\ \A i \in AnalysedBranch :
              Len(stdout[i].args) = 3 /\ stdout[i].args[3] = pc

\* a JumpIfFalse that print_analysis had analysed was taken, backwards
C8_Witness ==
    /\ Branched /\ last.op = JumpIfFalse /\ analyze_first
    /\ AnalysedBranch # {}
    /\ BranchOffset < 0 /\ pc <= last.at
    /\ \E i \in AnalysedBranch : stdout[i].args = << JumpIfFalse, BranchOffset, pc >>

\* PushAddressLocalVar addr has just been executed, on a stack that holds a
\* whole value at fp + addr, and Swap is the next instruction
AddressPushed ==
    /\ last.op = PushAddressLocalVar /\ task = "run"
    /\ pc < Len(program) /\ program[pc + 1] = Swap
    /\ last.fp + Unwrap(read_arg(last.at + 1)) + data_size <= Len(last.stack)
\* what PushValueLocalVar addr leaves of the stack PushAddressLocalVar was
\* dispatched on
ValuePushed ==
    LET a == last.fp + Unwrap(read_arg(last.at + 1))
    IN  last.stack \o SubSeq(last.stack, a + 1, a + data_size)

\* C9: where fp + addr + data_size <= the stack's length, PushAddressLocalVar
\* addr followed by Swap leaves the stack that PushValueLocalVar addr leaves:
\* the same value on top and the same stack below it.
C9_AddressThenSwap ==
    [][(AddressPushed /\ steps' = steps + 1) =>
            (task' = "run" /\ stack' = ValuePushed)]_vars

\* the engine came to fetch an instruction at or beyond the program's end
FetchedBeyond ==
    /\ x_end # "" /\ Len(procedures) > 0
    /\ last.op = NoInstruction.op /\ last.at = pc
    /\ pc >= Len(program)

\* C10: when pc is at or beyond the program's length at instruction fetch,
\* execution ends with a structured fatal error, not with a panic.
C10_FetchBeyondEnd ==
    FetchedBeyond => StructuredError

\* the k-th 2-byte operand (k = 0, 1, 2) of the instruction dispatched last
HasOperand(k) == IsSome(read_arg(last.at + 1 + ARG_SIZE * k))
Operand(k) == Unwrap(read_arg(last.at + 1 + ARG_SIZE * k))

\* the instruction dispatched last names a constant or a procedure that
\* does not exist
IndexOutOfRange ==
    \/ last.op = PushConstant /\ HasOperand(0) /\ Operand(0) >= Len(constants)
    \/ last.op = CallProc /\ HasOperand(0) /\ Operand(0) >= Len(last.procedures)
    \/ last.op = EntryProc /\ HasOperand(2) /\ Operand(1) >= Len(last.procedures)
    \/ /\ last.op \in {PushValueGlobalVar, PushAddressGlobalVar}
       /\ HasOperand(1)
       /\ (Operand(1) < 0 \/ Operand(1) >= Len(last.procedures))

\* the instruction dispatched last changed neither the stack nor fp,
\* cur_proc_i or the procedure table
NothingChanged ==
    /\ stack = last.stack /\ fp = last.fp /\ cur_proc_i = last.cur
    /\ procedures = last.procedures

\* C11: an index operand out of range (PushConstant beyond the pool,
\* CallProc and EntryProc beyond the procedure table, the procedure index of
\* PushValueGlobalVar and PushAddressGlobalVar outside the table) ends
\* execution with a structured error, with nothing pushed and no state changed.
C11_IndexOutOfRange ==
    IndexOutOfRange => StructuredError /\ NothingChanged

\* the stack the last instruction read from (Swap reads after its pop), and
\* the address it read at; ReadsStack says that it came to read at all
StackRead ==
    IF last.op = Swap THEN SubSeq(last.stack, 1, Len(last.stack) - data_size)
    ELSE last.stack
ReadsStack ==
    \/ last.op \in {PushValueLocalVar, PushValueMainVar}
         /\ HasOperand(0) /\ Operand(0) >= 0
    \/ /\ last.op = PushValueGlobalVar /\ HasOperand(1) /\ Operand(0) >= 0
       /\ 0 <= Operand(1) /\ Operand(1) < Len(last.procedures)
    \/ last.op = Swap /\ Len(last.stack) >= data_size
ReadAddress ==
    IF last.op = PushValueLocalVar THEN last.fp + Operand(0)
    ELSE IF last.op = PushValueMainVar THEN last.procedures[1].frame_ptr + Operand(0)
    ELSE IF last.op = PushValueGlobalVar
    THEN last.procedures[Operand(1) + 1].frame_ptr + Operand(0)
    ELSE i64_as_usize(i64(SubSeq(last.stack, Len(last.stack) - data_size + 1,
                                 Len(last.stack))))
\* fewer than data_size bytes lie at the address read
ReadPastStack == ReadsStack /\ ReadAddress > Len(StackRead) - data_size
\* a ReturnProc of a called procedure found fewer than 24 bytes on the stack
ReturnOnShortStack ==
    last.op = ReturnProc /\ last.cur # 0 /\ Len(last.stack) < 24

\* C12: PushValueLocalVar, PushValueMainVar, PushValueGlobalVar and Swap
\* whose address a has a + data_size beyond the stack's length (also where
\* a itself is within the stack) end execution with the invalid-stack-read
\* error and push nothing; ReturnProc on fewer than 24 bytes ends it with a
\* structured error.
C12_ReadPastStack ==
    /\ ReadPastStack =>
          /\ StructuredError
          /\ stderr[Len(stderr)] = "pl0.error.invalid_stack_read"
          /\ stack = StackRead
    /\ ReturnOnShortStack => StructuredError

\* C13: execute ends only by a ReturnProc dispatched in procedure 0 (normal
\* halt), by a dispatched EndOfCode (forced halt), or by a fatal error.  A
\* ReturnProc in procedure 0 always halts, and drains no linkage and leaves
\* the stack as it is; a ReturnProc in another procedure never halts
\* normally.
C13_WaysToEnd ==
    /\ x_end \in {"", "exit", "end_of_code", "error", "break", "panic"}
    /\ x_end = "exit" <=> (last.op = ReturnProc /\ last.cur = 0)
    /\ x_end = "end_of_code" <=> last.op = EndOfCode
    /\ x_end \in {"error", "break", "panic"} =>
          Len(stderr) > 0 /\ stderr[Len(stderr)] # ""
    /\ x_end # "" => task = "returned"
    /\ task = "returned" => (x_end # "" \/ a_end = "panic")
    /\ (last.op = ReturnProc /\ last.cur = 0) =>
          /\ task = "returned"
          /\ stack = last.stack /\ fp = last.fp /\ cur_proc_i = 0
    /\ (last.op = ReturnProc /\ last.cur # 0) => x_end # "exit"

\* main has ended normally, on a stack that holds its variables, after a
\* called procedure had returned to it
C13_Witness ==
    /\ x_end = "exit" /\ last.op = ReturnProc /\ last.cur = 0
    /\ ScenarioC /\ Len(stack) > 0 /\ stack = last.stack
    /\ steps > 4 /\ calls = << >>

\* C14: dispatching Put, Get or OpAddAddr always ends execution with the
\* fatal "not yet implemented" fault: the run is over, so no further
\* instruction is executed, and the dispatch leaves the stack, fp and
\* cur_proc_i as they were.
C14_Unimplemented ==
    last.op \in {Put, Get, OpAddAddr} =>
        /\ task = "returned" /\ x_end = "panic"
        /\ Len(stderr) > 0
        /\ stderr[Len(stderr)] = "panic: not yet implemented"
        /\ stack = last.stack /\ fp = last.fp /\ cur_proc_i = last.cur

\* Put was dispatched on a stack that held a value
C14_Witness ==
    /\ last.op = Put /\ Len(last.stack) > 0 /\ stack = last.stack
    /\ x_end = "panic" /\ steps = 3

\* load_data is about to decode an EntryProc whose three operands are all
\* there; EntryId is the procedure id it names
AtEntryProc ==
    /\ task = "preload" /\ l_rem_bytes = 0
    /\ l_pc + 3 * ARG_SIZE < Len(program)
    /\ program[l_pc + 1] = EntryProc
EntryId == Unwrap(read_arg(l_pc + 1 + ARG_SIZE))
\* the id it names was recorded by an earlier EntryProc
DuplicateEntry ==
    /\ AtEntryProc
    /\ 0 <= EntryId /\ EntryId < Len(l_procedures)
    /\ IsSome(l_procedures[EntryId + 1])

\* C15: an EntryProc naming a procedure id that was already recorded makes
\* the load fail with an error and no procedure table; the earlier
\* start_pos is not overwritten.
C15_DuplicateEntryProc ==
    [][DuplicateEntry =>
          /\ task' = "returned" /\ x_end' = "error"
          /\ procedures' = << >>
          /\ l_procedures' = l_procedures]_vars

\* load_data has returned no procedure table and no constant pool, with an
\* error reported, and execute has returned without a stack or a dispatch
LoadAborted ==
    /\ task = "returned" /\ x_end = "error"
    /\ Len(stderr) > 0
    /\ stderr[Len(stderr)] \in {"pl0.error.preload_error",
                                "pl0.error.invalid_preload_procedure"}
    /\ procedures = << >> /\ constants = << >>
    /\ stack = << >> /\ steps = 0
\* load_data is over
LoadOver == task \in {"run", "input", "returned"} /\ l_pc >= 4

\* C16: when the file ends inside an EntryProc that load_data is decoding
\* (so that its operands reach beyond the end of the file), or ends before
\* all declared procedures are found, the load fails with an error and
\* there is no procedure table and no constant pool.
C16_EndOfFileInLoad ==
    /\ (LoadOver /\ l_pc > Len(program)) => LoadAborted
    /\ (LoadOver /\ l_pc >= Len(program) /\ l_procedure_count > 0) => LoadAborted

\* load_data is about to decode an EntryProc whose length and id operands
\* are there
AtEntryId ==
    /\ task = "preload" /\ l_rem_bytes = 0
    /\ l_pc + 2 * ARG_SIZE < Len(program)
    /\ program[l_pc + 1] = EntryProc
\* the procedure count the header declares
DeclaredCount == Unwrap(read_arg(0))
\* the table handed to the engine has a slot for every declared procedure,
\* and slot i holds the position of an EntryProc that names i
TableFilled ==
    /\ Len(procedures) = DeclaredCount
    /\ \A i \in 1..Len(procedures) :
          /\ program[procedures[i].start_pos + 1] = EntryProc
          /\ read_arg(procedures[i].start_pos + 1 + ARG_SIZE) = Some(i - 1)

\* C17: every EntryProc whose id operand lies outside 0..procedure_count
\* (a negative id included) makes the load fail with an error and no
\* result; and when the load succeeds, every index below procedure_count of
\* the procedure table is filled.
C17_EntryIdInRange ==
    /\ [][(AtEntryId /\ (EntryId < 0 \/ EntryId >= DeclaredCount)) =>
              LoadAborted']_vars
    /\ [](task \in {"run", "input"} => TableFilled)

\* the load has failed at the EntryProc of a negative id, after an earlier
\* procedure had been recorded
C17_Witness ==
    /\ LoadAborted
    /\ stderr[Len(stderr)] = "pl0.error.invalid_preload_procedure"
    /\ Unwrap(read_arg(l_pc - 2 * ARG_SIZE)) < 0
    /\ \E i \in 1..Len(l_procedures) : IsSome(l_procedures[i])

\* the operands print_analysis decoded for the line: for a jump the line
\* carries the resolved target after the one operand
DecodedOperands(line) ==
    IF line.args[1] \in {Jump, JumpIfFalse}
    THEN SubSeq(line.args, 2, Min(2, Len(line.args)))
    ELSE Tail(line.args)
\* the bytes of a mnemonic and its operands
Encode(op, operands) ==
    << OpCode_into(op) >> \o
        Concat([k \in 1..Len(operands) |-> i16_to_le_bytes(operands[k])])
\* the lines print_analysis printed for instructions of fixed size
FixedSizeLines ==
    { i \in 1..Len(stdout) :
        stdout[i].k = "instr" /\ stdout[i].args[1] # PutString }
\* the line re-encoded is the bytes of the file it was decoded from
RoundTrip(line) ==
    LET op == OpCode_try_from(program[line.at + 1])
        n  == Len(DecodedOperands(line))
    IN  /\ IsSome(op)
        /\ line.args[1] <= OpAddAddr
        /\ Encode(Unwrap(op), DecodedOperands(line)) =
               SubSeq(program, line.at + 1, line.at + 1 + ARG_SIZE * n)
\* the byte print_analysis is about to decode is above 0x21
AnalyzerAtUnknown ==
    task = "analysis" /\ a_pc < Len(program) /\ program[a_pc + 1] > OpAddAddr
\* the byte execute is about to decode is above 0x21
EngineAtUnknown ==
    task = "run" /\ pc < Len(program) /\ program[pc + 1] > OpAddAddr

\* C18: for every instruction of fixed size with an opcode byte 0x00..0x21,
\* decoding the opcode byte to its mnemonic and every 2-byte operand as a
\* little-endian signed 16-bit value and encoding them again gives the
\* bytes of the file; and a byte above 0x21 is rejected as an unknown
\* opcode by print_analysis and by execute, which decode nothing for it.
C18_DecodeRoundTrip ==
    /\ [](\A i \in FixedSizeLines : RoundTrip(stdout[i]))
    /\ [][AnalyzerAtUnknown =>
             /\ stderr' = Append(stderr, "pl0.unknown_opcode")
             /\ a_end' = "break"
             /\ \A i \in (Len(stdout) + 1)..Len(stdout') :
                   stdout'[i].k # "instr"]_vars
    /\ [][EngineAtUnknown =>
             /\ stderr' = Append(stderr, "pl0.unknown_opcode")
             /\ x_end' = "break" /\ task' = "returned"
             /\ stack' = stack /\ pc' = pc]_vars
    /\ [](stderr # << >> /\ stderr[Len(stderr)] = "pl0.unknown_opcode" /\ x_end = "break"
             => program[last.at + 1] > OpAddAddr)

\* a run whose analysis decoded a negative operand and met an unknown byte,
\* and whose engine then stopped at an unknown byte
C18_Witness ==
    /\ analyze_first /\ a_end = "break" /\ x_end = "break"
    /\ stderr[Len(stderr)] = "pl0.unknown_opcode"
    /\ program[last.at + 1] > OpAddAddr
    /\ \E i \in FixedSizeLines :
          Len(DecodedOperands(stdout[i])) > 0 /\ DecodedOperands(stdout[i])[1] < 0

\* CallProc was dispatched with a procedure id that is not negative
CallPushed == last.op = CallProc /\ HasOperand(0) /\ Operand(0) >= 0
\* ... and the id names a procedure of the table
Called == CallPushed /\ Operand(0) < Len(last.procedures)
\* the n-byte little-endian field of the stack that starts at offset `from`
Field(from, n) == SubSeq(stack, from + 1, from + n)

\* C19: CallProc pushes exactly 24 bytes, the return pc (the offset just
\* after its operand), fp and cur_proc_i in that order, each as an 8-byte
\* little-endian field, whatever the data width; it then sets cur_proc_i to
\* the callee's id, pc to the callee's start_pos and the callee's frame_ptr
\* to the new stack length, and leaves fp, the frame_ptr of every other
\* procedure and the stack bytes below the old top as they were.
C19_CallProcLinkage ==
    /\ CallPushed =>
          /\ Len(stack) = Len(last.stack) + 24
          /\ SubSeq(stack, 1, Len(last.stack)) = last.stack
          /\ Field(Len(last.stack), 8) = to_le_bytes(last.at + 1 + ARG_SIZE, 8)
          /\ Field(Len(last.stack) + 8, 8) = to_le_bytes(last.fp, 8)
          /\ Field(Len(last.stack) + 16, 8) = to_le_bytes(last.cur, 8)
          /\ fp = last.fp
    /\ Called =>
          /\ x_end = ""
          /\ cur_proc_i = Operand(0)
          /\ pc = last.procedures[Operand(0) + 1].start_pos
          /\ Len(procedures) = Len(last.procedures)
          /\ procedures[Operand(0) + 1].frame_ptr = Len(stack)
          /\ procedures[Operand(0) + 1].start_pos =
                 last.procedures[Operand(0) + 1].start_pos
          /\ \A i \in 1..Len(procedures) :
                i # Operand(0) + 1 => procedures[i] = last.procedures[i]

\* a call made from inside a procedure, at a data width below 8, above a
\* frame that holds bytes already
C19_Witness ==
    /\ Called /\ data_size < 8
    /\ last.cur # 0 /\ last.fp > 0 /\ Len(last.stack) > 24
    /\ Operand(0) # last.cur
    /\ Len(procedures) > 2

\* EntryProc was dispatched and its procedure-id operand could be read
EntryDispatched == last.op = EntryProc /\ HasOperand(1)

\* C20: an EntryProc the engine executes is fatal whenever its procedure-id
\* operand is negative or is not cur_proc_i, the id of the procedure being
\* entered; execution goes on only for a matching id that is not negative.
C20_EntryProcIdChecked ==
    (EntryDispatched /\ (Operand(1) < 0 \/ Operand(1) # last.cur)) =>
        /\ task = "returned"
        /\ x_end \in {"error", "panic"}
        /\ Len(stderr) > 0

\* EntryProc was dispatched and the engine went on to the next instruction
Entered == last.op = EntryProc /\ x_end = "" /\ HasOperand(2)
\* the frame pointer the table held for the procedure the EntryProc names
EnteredFramePtr == last.procedures[Operand(1) + 1].frame_ptr
\* the stack length an EntryProc leaves: fp + reserved
EnteredLength == EnteredFramePtr + Operand(2)

\* C21: after EntryProc(bodyLen, id, reserved) has executed, fp is
\* procedures[id].frame_ptr, the stack is fp + reserved bytes long, every
\* byte of a newly added region is zero, and the bytes below
\* min(old length, fp + reserved) are what they were.
C21_EntryProcFrame ==
    Entered =>
        /\ 0 <= Operand(1) /\ Operand(1) < Len(last.procedures)
        /\ fp = EnteredFramePtr
        /\ procedures = last.procedures
        /\ Len(stack) = EnteredLength
        /\ \A i \in (Len(last.stack) + 1)..Len(stack) : stack[i] = 0
        /\ \A i \in 1..Min(Len(last.stack), EnteredLength) : stack[i] = last.stack[i]
        /\ pc = last.at + 1 + 3 * ARG_SIZE
        /\ cur_proc_i = last.cur

\* an EntryProc that grew the stack above a link record
C21_Witness ==
    /\ Entered /\ EnteredFramePtr >= 24 /\ Operand(2) > 0
    /\ Len(last.stack) = EnteredFramePtr
    /\ \E i \in 1..Len(last.stack) : last.stack[i] # 0

\* an EntryProc that cut the stack down
C21_WitnessShrink == Entered /\ Len(stack) < Len(last.stack)

\* StoreValue was dispatched on a stack that holds a value (Right, on top)
\* and below it an address (Left) that is an offset into a buffer
Stored ==
    /\ last.op = StoreValue /\ TwoOperands
    /\ ~IsNegative(Left) /\ u64_as_usize(Left) < Huge
StoreAddress == u64_as_usize(Left)
StoredValue == SubSeq(last.stack, Len(last.stack) - data_size + 1, Len(last.stack))

\* C22: StoreValue pops the value and then the address and writes the w
\* bytes of the value at that absolute stack address; the stack is then
\* max(old length - 2w, address + w) bytes long, the bytes growth added are
\* zero, every byte outside [address, address + w) that the two pops left
\* is what it was, and StoreValue moves pc past its opcode only and leaves
\* fp and cur_proc_i alone.
C22_StoreValue ==
    Stored =>
        /\ x_end = "" /\ task = "run"
        /\ Len(stack) = Max(Len(last.stack) - 2 * data_size, StoreAddress + data_size)
        /\ SubSeq(stack, StoreAddress + 1, StoreAddress + data_size) = StoredValue
        /\ \A i \in 1..Len(stack) :
              (i <= StoreAddress \/ i > StoreAddress + data_size) =>
                  stack[i] = IF i <= Len(BelowOperands) THEN BelowOperands[i] ELSE 0
        /\ pc = last.at + 1
        /\ fp = last.fp /\ cur_proc_i = last.cur /\ procedures = last.procedures

\* a store beyond the end of what the pops left, with a gap that growth filled
C22_Witness ==
    /\ Stored /\ ~IsZero(StoredValue)
    /\ StoreAddress > Len(BelowOperands)
    /\ Len(BelowOperands) > 0

\* a store into bytes the stack already held
C22_WitnessInPlace ==
    /\ Stored /\ ~IsZero(StoredValue)
    /\ StoreAddress + data_size <= Len(BelowOperands)

\* the line read_line returns next: none left is the empty line
NextLine == IF Len(stdin) > 0 THEN Head(stdin) ELSE << >>
\* lines that are no integer: nothing, "x", an empty line, "-", "1 2" and
\* 9223372036854775808, which is beyond i64
NoIntegerLines ==
    { << >>, << 120, 10 >>, << 10 >>, << 45, 10 >>, << 49, 32, 50, 10 >>,
      << 57, 50, 50, 51, 51, 55, 50, 48, 51, 54, 56, 53, 52, 55, 55, 53, 56, 48, 56, 10 >> }
\* lines that are an integer: "42", "-7", " +12 \r", "65535", and the
\* largest and the smallest i64
IntegerLines ==
    { << 52, 50, 10 >>, << 45, 55, 10 >>, << 32, 43, 49, 50, 32, 13, 10 >>,
      << 54, 53, 53, 51, 53, 10 >>,
      << 57, 50, 50, 51, 51, 55, 50, 48, 51, 54, 56, 53, 52, 55, 55, 53, 56, 48, 55, 10 >>,
      << 45, 57, 50, 50, 51, 51, 55, 50, 48, 51, 54, 56, 53, 52, 55, 55, 53, 56, 48, 56, 10 >> }
\* the 64-bit value of an integer line
IntegerOf(line) ==
    IF line = << 52, 50, 10 >> THEN << 42, 0, 0, 0, 0, 0, 0, 0 >>
    ELSE IF line = << 45, 55, 10 >> THEN << 249, 255, 255, 255, 255, 255, 255, 255 >>
    ELSE IF line = << 32, 43, 49, 50, 32, 13, 10 >> THEN << 12, 0, 0, 0, 0, 0, 0, 0 >>
    ELSE IF line = << 54, 53, 53, 51, 53, 10 >> THEN << 255, 255, 0, 0, 0, 0, 0, 0 >>
    ELSE IF line[1] = 45 THEN << 0, 0, 0, 0, 0, 0, 0, 128 >>
    ELSE << 255, 255, 255, 255, 255, 255, 255, 127 >>
\* the address InputToAddr popped, as a signed number, where it is small
InputAddress ==
    IF IsNegative(in_addr) THEN 0 - u64_as_usize(WrappingNeg(i64(in_addr)))
    ELSE u64_as_usize(i64(in_addr))
\* fp + address is an offset into a buffer
InputTargetValid ==
    /\ u64_as_usize(IF IsNegative(in_addr) THEN WrappingNeg(i64(in_addr))
                    ELSE i64(in_addr)) < Huge
    /\ fp + InputAddress >= 0
\* the engine waits for a line
Waiting == task = "input"

OneOperand == Len(last.stack) >= data_size
TopOperand == SubSeq(last.stack, Len(last.stack) - data_size + 1, Len(last.stack))
\* the value on top of the stack now
TopNow == SubSeq(stack, Len(stack) - data_size + 1, Len(stack))
\* the canonical booleans of the configured width
One == [i \in 1..data_size |-> IF i = 1 THEN 1 ELSE 0]
Zero == [i \in 1..data_size |-> 0]
CompareOps ==
    {CompareEq, CompareNotEq, CompareLT, CompareGT, CompareLTEq, CompareGTEq}

\* C24: IsOdd pops one value and pushes the boolean of the configured width:
\* 1 for every odd value, the negative odd values included, and 0 for every
\* even value; each Compare opcode likewise pushes exactly 1 or 0 of width w.
C24_IsOddCanonical ==
    /\ (last.op = IsOdd /\ OneOperand) =>
          /\ x_end = ""
          /\ Len(stack) = Len(last.stack)
          /\ TopNow = IF TopOperand[1] % 2 = 1 THEN One ELSE Zero
    /\ (last.op \in CompareOps /\ TwoOperands) =>
          /\ x_end = ""
          /\ stack \in { BelowOperands \o One, BelowOperands \o Zero }

\* the position just after the operand of the last instruction
AfterOperand == last.at + 1 + ARG_SIZE
\* JumpIfFalse was dispatched on a stack that holds a value, with its
\* operand in the file
JumpIfFalseDone == last.op = JumpIfFalse /\ OneOperand /\ HasOperand(0)
JumpDone == last.op = Jump /\ HasOperand(0)

\* C25: JumpIfFalse pops exactly one value and consumes its 2-byte operand
\* whether it branches or not; pc becomes (position after the operand) +
\* offset if and only if the popped value is 0, and the position just after
\* the operand otherwise.  Jump changes pc only: the stack, fp and
\* cur_proc_i stay as they were.
C25_JumpIfFalse ==
    /\ JumpIfFalseDone =>
          /\ stack = SubSeq(last.stack, 1, Len(last.stack) - data_size)
          /\ fp = last.fp /\ cur_proc_i = last.cur /\ procedures = last.procedures
          /\ (IsZero(TopOperand) /\ AfterOperand + Operand(0) >= 0) =>
                 (x_end = "" /\ pc = AfterOperand + Operand(0))
          /\ ~IsZero(TopOperand) => (x_end = "" /\ pc = AfterOperand)
    /\ JumpDone =>
          /\ stack = last.stack
          /\ fp = last.fp /\ cur_proc_i = last.cur /\ procedures = last.procedures
          /\ AfterOperand + Operand(0) >= 0 =>
                 (x_end = "" /\ pc = AfterOperand + Operand(0))

\* a JumpIfFalse with an offset that would have led elsewhere was not taken,
\* for a value that is neither 0 nor 1
C25_Witness ==
    /\ JumpIfFalseDone /\ ~IsZero(TopOperand) /\ TopOperand # One
    /\ TopOperand[1] = 0
    /\ Operand(0) # 0 /\ pc = AfterOperand /\ x_end = ""

\* print_analysis left its scan loop at the exit test and printed the pool
AnalysisCompleted == analyze_first /\ a_end = "done"
\* load_data returned the tables
LoadCompleted == task \in {"run", "input", "returned"} /\ Len(procedures) > 0
\* the constants print_analysis printed, in order
AnalysedConstants ==
    LET idx == { i \in 1..Len(stdout) : stdout[i].k = "constant" }
        first == CHOOSE i \in idx : \A j \in idx : i <= j
    IN  [n \in 1..Cardinality(idx) |-> stdout[first + n - 1].args]

\* C26: for every program on which both scans complete without error,
\* load_data and print_analysis leave their scan at the same byte offset, so
\* they agree on where the constant pool starts and on its
\* floor((file length - position) / w) constants; this includes programs
\* whose declared body length does not end on an instruction boundary or is
\* smaller than the EntryProc instruction itself.
C26_ScansAgree ==
    (AnalysisCompleted /\ LoadCompleted) =>
        /\ a_pc = l_pc
        /\ Len(constants) = (Len(program) - l_pc) \div data_size
        /\ AnalysedConstants = constants

\* load_data has just returned its tables and no instruction has run yet
AtStart == task = "run" /\ steps = 0 /\ last = NoInstruction

\* C27: after a successful load, for every procedure id i the recorded
\* procedures[i].start_pos is the offset of an EntryProc opcode byte whose
\* id operand is i, and execution starts with pc = procedures[0].start_pos,
\* an empty stack, fp = 0 and cur_proc_i = 0.
C27_StartState ==
    /\ LoadCompleted =>
          \A i \in 1..Len(procedures) :
             /\ procedures[i].start_pos + 1 <= Len(program)
             /\ program[procedures[i].start_pos + 1] = 26
             /\ i16_from_le_bytes(program[procedures[i].start_pos + 4],
                                  program[procedures[i].start_pos + 5]) = i - 1
    /\ AtStart =>
          /\ Len(procedures) > 0
          /\ pc = procedures[1].start_pos
          /\ stack = << >> /\ fp = 0 /\ cur_proc_i = 0
          /\ x_end = ""

\* the start of a run of three procedures where main is not the first
\* procedure of the file
C27_Witness ==
    /\ AtStart /\ Len(procedures) >= 3
    /\ procedures[1].start_pos > 4
    /\ pc = procedures[1].start_pos

\* the stack below the one operand of a unary opcode
BelowOperand == SubSeq(last.stack, 1, Len(last.stack) - data_size)

\* C28: no arithmetic opcode traps on overflow.  For every width and every
\* operand value, Minusify (of the minimum value too), OpAdd, OpSubtract,
\* OpMultiply and OpDivide by a divisor that is not 0 (minimum / -1 too) push
\* a w-byte result, got by widening to 64 bits, operating and narrowing, and
\* execution goes on.
C28_NoOverflowTrap ==
    /\ (last.op = Minusify /\ OneOperand) =>
          /\ x_end = "" /\ task = "run"
          /\ stack = BelowOperand \o SubSeq(WrappingNeg(i64(TopOperand)), 1, data_size)
    /\ (last.op = OpDivide /\ TwoOperands /\ ~IsZero(Right)) =>
          /\ x_end = "" /\ task = "run"
          /\ stack = BelowOperands \o SubSeq(WrappingDiv(Left, Right), 1, data_size)
    /\ (last.op \in {OpAdd, OpSubtract, OpMultiply} /\ TwoOperands) =>
          /\ x_end # "panic"
          /\ Len(stack) = Len(last.stack) - data_size

\* the engine is inside the body of the procedure cur_proc_i: the last
\* instruction was not the CallProc that leads to its EntryProc, and main's
\* EntryProc has run
InsideBody ==
    /\ task \in {"run", "input"}
    /\ last.op \notin {CallProc, -1}
    /\ cur_proc_i < Len(procedures)
\* the declared body of every procedure ends with a ReturnProc, so that no
\* body runs into the EntryProc of the procedure that follows it
BodiesReturn ==
    \A i \in 1..Len(procedures) :
        LET start == procedures[i].start_pos
            len   == Unwrap(read_arg(start + 1))
        IN  /\ len > 1 + 3 * ARG_SIZE
            /\ start + len <= Len(program)
            /\ program[start + len] = ReturnProc

\* C29: whenever execution is inside the body of procedure P (cur_proc_i = P,
\* after its EntryProc has run), fp is procedures[P].frame_ptr; this holds
\* too in the outer activation of P after an inner recursive call of P has
\* returned, so that fp + addr and procedures[P].frame_ptr + addr name the
\* same bytes.
C29_FramePointerOfCurrent ==
    (InsideBody /\ BodiesReturn) => fp = procedures[cur_proc_i + 1].frame_ptr

\* the engine is about to dispatch a Pop
AtPop == task = "run" /\ steps < MaxSteps /\ pc < Len(program) /\ program[pc + 1] = Pop

\* C30: the debug flag does not influence execution: for the same program
\* and the same input, the run with debug on and the run with debug off pass
\* through the same (pc, fp, cur_proc_i, stack) states and end the same way.
\* The flag reaches the engine's state through the Pop arm only (elsewhere it
\* chooses what is printed), so the two runs stay together exactly as long
\* as, in every state either of them reaches, Pop does with the flag on what
\* it does with the flag off; a stack shorter than w bytes included.
C30_DebugIndependent ==
    AtPop => ExecPopWith(TRUE) = ExecPopWith(FALSE)

\* the engine waits in an InputToAddr that follows a PushAddressLocalVar,
\* for the address that instruction pushed
WaitingForLocal ==
    /\ Waiting /\ last.at >= 1 + ARG_SIZE
    /\ program[last.at - ARG_SIZE] = PushAddressLocalVar
    /\ IsSome(read_arg(last.at - ARG_SIZE))
    /\ Unwrap(read_arg(last.at - ARG_SIZE)) >= 0
    /\ in_addr = SubSeq(usize_to_le_bytes(fp + Unwrap(read_arg(last.at - ARG_SIZE))),
                        1, data_size)
\* the operand addr of that PushAddressLocalVar
LocalAddr == Unwrap(read_arg(last.at - ARG_SIZE))

\* C31: in every frame, whatever fp is (fp > 0 inside a called procedure
\* included), PushAddressLocalVar addr followed by InputToAddr stores the
\* number entered in the stack bytes a following PushValueLocalVar addr
\* reads, those at fp + addr: the input becomes the value of the local
\* variable at addr.
C31_InputToLocalVar ==
    [][(WaitingForLocal /\ NextLine \in IntegerLines) =>
          /\ task' = "run"
          /\ Len(stack') >= fp + LocalAddr + data_size
          /\ SubSeq(stack', fp + LocalAddr + 1, fp + LocalAddr + data_size) =
                 SubSeq(IntegerOf(NextLine), 1, data_size)]_vars

\* print_analysis has left its scan loop
AnalysisOver == a_end # ""

\* C32: the scan of load_data and the scan of print_analysis terminate on
\* every program buffer: every pass through either loop advances the scan
\* position by at least one byte, and each scan ends, by success or by error,
\* at a position that is not beyond the end of the file, so that the number
\* of constants (file length - position) / w is never computed from a
\* negative difference; a PutString without its NUL and an EntryProc whose
\* last operand the end of the file cuts off included.
C32_ScansEndInsideFile ==
    /\ [][(task = "preload" /\ task' = "preload") => l_pc' > l_pc]_vars
    /\ [][(task = "analysis" /\ task' = "analysis") => a_pc' > a_pc]_vars
    /\ [](LoadOver => l_pc <= Len(program))
    /\ [](AnalysisOver => a_pc <= Len(program))
    /\ [](task # "hung")

=============================================================================
